---- MODULE Spec2Model ----
(***************************************************************************)
(* A model of the E.U.N.A. orchestration core: the Task Orchestrator       *)
(* (src/core/orchestrator.py), the Task Workflow Manager                   *)
(* (src/core/task_manager.py) and the Tool Executor                        *)
(* (src/tools/tool_executor.py), over the Task Store interface             *)
(* (src/services/database_service.py); with the Agent Runtime              *)
(* (src/agents/), the factory-level cycle (src/core/agent_factory.py), the *)
(* Tool Registry (src/tools/tool_registry.py) and the Reasoning Service    *)
(* (src/services/groq_service.py).                                         *)
(*                                                                         *)
(* Coroutines are cut into steps at the points where they can really be    *)
(* suspended: the Reasoning Service calls (asyncio.sleep in the retry      *)
(* loop), asyncio.gather, tool capabilities and the grace-window sleep.    *)
(* Task Store calls never suspend (their bodies are synchronous), so a     *)
(* run of them is one step with its neighbours.                            *)
(***************************************************************************)
EXTENDS Integers, Sequences, FiniteSets, TLC

VARIABLES
    tasks,              \* Task Store, table tasks: row id -> [status, priority, created_at]
    agents,             \* Task Store, table agents: row id -> [task_id, agent_type, status]
    active_tasks,       \* TaskOrchestrator.active_tasks: task id -> execution plan
    pc,                 \* position of each task's submit / _execute_task flow
    task_workflows,     \* TaskManager.task_workflows: task id -> workflow
    task_dependencies,  \* TaskManager.task_dependencies: task id -> list of task ids
    task_timeouts,      \* TaskManager.task_timeouts: task id -> deadline
    memory,             \* records handed to memory_service.store_memory, in order
    now,                \* the clock read by datetime.now()
    exec_frame,         \* locals of each _execute_task / _execute_agents coroutine
    reply,              \* what the last public operation returned (or raised)
    active_executions,  \* ToolExecutor.active_executions: execution id -> record
    execution_history,  \* ToolExecutor.execution_history
    agent_executions,   \* Task Store, table agent_executions
    calls,              \* locals of the execute_single_tool calls waiting for their tool
    chain,              \* locals of the execute_tool_workflow coroutine
    par,                \* locals of the execute_parallel_tools coroutine
    runtime,            \* the Agent Runtime instance: status, execution_history, last call
    factory_cycle,      \* locals of the factory-level cycle of AgentFactory.execute_agent
    registry,           \* ToolRegistry: tools and tool_categories
    groq                \* locals of the Reasoning Service call in flight

orchVars == <<tasks, agents, active_tasks, pc, exec_frame>>
tmVars   == <<task_workflows, task_dependencies, task_timeouts, memory>>
toolVars == <<active_executions, execution_history, agent_executions, calls, chain, par>>
agentVars == <<runtime, factory_cycle, registry, groq>>
vars     == <<tasks, agents, active_tasks, pc, exec_frame, task_workflows, task_dependencies,
              task_timeouts, memory, now, reply, active_executions, execution_history,
              agent_executions, calls, chain, par, runtime, factory_cycle, registry, groq>>

----------------------------------------------------------------------------
(* Bounds of the model.                                                    *)

MaxTasks  == 1      \* tasks submitted in Spec
MaxAgents == 3      \* suggested agents per analysis
MaxDepTasks == 2    \* tasks submitted in SpecDeps
MaxSteps    == 2    \* steps of a workflow in SpecWf
MaxResults  == 3    \* step results recorded per workflow in SpecWf
MaxMemory   == 1    \* records handed to the Memory Service in SpecWf
MaxSchedTasks == 101  \* tasks submitted in SpecSched
MaxChain    == 3    \* steps of a chain in SpecChain
MaxPar      == 2    \* specs of a parallel batch in SpecPar
MaxClock    == 1    \* clock ticks in SpecPar

(* Program constants.                                                      *)

max_concurrent_tasks == 10      \* TaskManager.max_concurrent_tasks
recent_limit         == 100     \* optimize_task_scheduling: get_recent_tasks(limit=100)
default_timeout      == 30      \* workflow_definition.get("timeout_minutes", 30)

----------------------------------------------------------------------------
(* Finite maps (Python dicts).                                             *)

Put(f, k, v) == [x \in (DOMAIN f) \cup {k} |-> IF x = k THEN v ELSE f[x]]
Del(f, k)    == [x \in (DOMAIN f) \ {k} |-> f[x]]
EmptyMap     == [x \in {} |-> 0]

NoReply == [op |-> "none"]

TaskIds == 1..MaxTasks

\* The locals of _execute_agents before it runs and after it returned.
\* running holds the ids of the agents whose _execute_single_agent call has
\* started and not yet returned; factory holds, per agent id, what
\* execute_agent handed to its caller.
NoFrame == [agent_results |-> <<>>, pending |-> {}, parallel_results |-> EmptyMap,
            running |-> {}, factory |-> EmptyMap]

----------------------------------------------------------------------------
(* Task Store (DatabaseService).                                           *)

\* create_task: a new row, status "pending"; ids and created_at grow with
\* every insert.
create_task(priority) ==
    Append(tasks, [status |-> "pending", priority |-> priority,
                   created_at |-> Len(tasks) + 1])

\* get_task: the row or None.
task_exists(task_id) == task_id \in DOMAIN tasks

\* update_task_status: sets the status of an existing row, nothing otherwise.
update_task_status(tbl, task_id, status) ==
    IF task_id \in DOMAIN tbl
        THEN [tbl EXCEPT ![task_id].status = status]
        ELSE tbl

\* create_agent: a new row; Agent.status defaults to "active".
create_agent(tbl, task_id, agent_type) ==
    Append(tbl, [task_id |-> task_id, agent_type |-> agent_type, status |-> "active"])

\* get_task_agents: the ids of the rows WHERE Agent.task_id == task_id.
\* Agent.task_id is NOT NULL, so task_id = None (here 0) selects nothing.
get_task_agents(tbl, task_id) ==
    {a \in DOMAIN tbl : tbl[a].task_id = task_id}

\* update_agent_status: sets the status of an existing row.
update_agent_status(tbl, agent_id, status) ==
    IF agent_id \in DOMAIN tbl
        THEN [tbl EXCEPT ![agent_id].status = status]
        ELSE tbl

None == 0

----------------------------------------------------------------------------
(* Agent Factory (src/core/agent_factory.py).                              *)

\* create_default_agent / create_dynamic_agent: the dict handed back to the
\* orchestrator. The "priority" key is set by the factory: "medium" for a
\* default agent, "high" for a dynamic one.
factory_priority(agent_type) ==
    IF agent_type = "dynamic" THEN "high" ELSE "medium"

\* execute_agent looks its record up with get_task_agents(task_id=None).
execute_agent_found(tbl, agent_id) ==
    agent_id \in get_task_agents(tbl, None)

\* execute_agent: the agents table afterwards and what the caller gets.
\* store_ok says whether the Task Store answers during the call; answered
\* tells whether get_task_agents returned a list.
\* Store down: get_task_agents raises, and so does update_agent_status in
\* the except block, which ends the call with that exception.
\* Found: marked active, the cycle runs, marked completed, success=True.
\* Not found: ValueError, caught; the record is marked failed; building the
\* failure dict evaluates agent.name with agent = None, which raises out of
\* the except block.
execute_agent(tbl, agent_id, store_ok) ==
    IF ~store_ok
        THEN [tbl    |-> tbl,
              answered |-> FALSE,
              found  |-> FALSE,
              raised |-> TRUE,
              result |-> [agent_id |-> agent_id, success |-> FALSE]]
    ELSE IF execute_agent_found(tbl, agent_id)
        THEN [tbl    |-> update_agent_status(
                            update_agent_status(tbl, agent_id, "active"),
                            agent_id, "completed"),
              answered |-> TRUE,
              found  |-> TRUE,
              raised |-> FALSE,
              result |-> [agent_id |-> agent_id, success |-> TRUE]]
        ELSE [tbl    |-> update_agent_status(tbl, agent_id, "failed"),
              answered |-> TRUE,
              found  |-> FALSE,
              raised |-> TRUE,
              result |-> [agent_id |-> agent_id, success |-> FALSE]]

\* execute_agent was not called.
NoOutcome == [answered |-> FALSE, found |-> FALSE, raised |-> FALSE, success |-> FALSE]

\* What the frame keeps of one execute_agent call.
factory_outcome(r) ==
    [answered |-> r.answered, found |-> r.found, raised |-> r.raised,
     success |-> r.result.success]

----------------------------------------------------------------------------
(* Task Orchestrator (src/core/orchestrator.py).                           *)

\* The analyses (lists of suggested-agent entries) the Reasoning Service
\* hands back in this model: none, one dynamic agent, two default agents,
\* and a default agent followed by two dynamic ones.
DefaultSpec == [type |-> "default", priority |-> "high"]
DynamicSpec == [type |-> "dynamic", priority |-> "medium"]

Analyses == { <<>>, <<DynamicSpec>>, <<DefaultSpec, DefaultSpec>>,
              <<DefaultSpec, DynamicSpec, DynamicSpec>> }

\* submit_task, first part: the row is created (status pending) and the log
\* written; the flow then waits for the Memory and Reasoning Services.
submit_task_create(priority) ==
    /\ tasks' = create_task(priority)
    /\ pc' = Append(pc, "analysis")
    /\ exec_frame' = Append(exec_frame, NoFrame)
    /\ UNCHANGED <<agentVars, agents, active_tasks, tmVars, now, toolVars, reply>>

\* submit_task, second part: the plan is stored under the task id and
\* _execute_task is scheduled.
submit_task_plan(task_id, suggested_agents) ==
    /\ task_id \in DOMAIN pc
    /\ pc[task_id] = "analysis"
    /\ active_tasks' = Put(active_tasks, task_id,
                           [status   |-> "pending",
                            analysis |-> suggested_agents,
                            agents   |-> <<>>,
                            results  |-> <<>>])
    /\ pc' = [pc EXCEPT ![task_id] = "scheduled"]
    /\ reply' = [op |-> "submit_task", task_id |-> task_id, status |-> "submitted"]
    /\ UNCHANGED <<agentVars, tasks, agents, exec_frame, tmVars, now, toolVars>>

\* _create_agents_for_task: the loop over the suggested entries; the table
\* and the list of agent dicts. created[i] says whether the creation of
\* entry i returns (the reasoning call for a dynamic agent, the factory and
\* its create_agent) or raises: the except block logs a warning and the loop
\* goes on without an agent for the entry.
RECURSIVE create_agents_for_task(_, _, _, _, _)
create_agents_for_task(tbl, task_id, suggested, made, created) ==
    IF suggested = <<>> THEN [tbl |-> tbl, agents |-> made]
    ELSE LET spec   == Head(suggested)
             atype  == IF spec.type = "dynamic" THEN "dynamic" ELSE "default"
             tbl2   == create_agent(tbl, task_id, atype)
             agent  == [id |-> Len(tbl2), type |-> atype,
                        priority |-> factory_priority(atype)]
         IN  IF Head(created)
                THEN create_agents_for_task(tbl2, task_id, Tail(suggested),
                                            Append(made, agent), Tail(created))
                ELSE create_agents_for_task(tbl, task_id, Tail(suggested), made,
                                            Tail(created))

\* The outcomes of the creations of one analysis; every creation returns.
Creations  == [1..MaxAgents -> BOOLEAN]
AllCreated == [i \in 1..MaxAgents |-> TRUE]

\* _execute_task, lines 85-103: the plan is looked up, the task goes to
\* in_progress in the store and in the plan, the agents are created.
\* created are the outcomes of the creations, in the order of the analysis.
execute_task_start(task_id, created) ==
    /\ task_id \in DOMAIN pc
    /\ pc[task_id] = "scheduled"
    /\ IF task_id \notin DOMAIN active_tasks
          THEN /\ pc' = [pc EXCEPT ![task_id] = "done"]
               /\ UNCHANGED <<tasks, agents, active_tasks>>
          ELSE LET made == create_agents_for_task(agents, task_id,
                                active_tasks[task_id].analysis, <<>>, created)
               IN  /\ tasks' = update_task_status(tasks, task_id, "in_progress")
                   /\ agents' = made.tbl
                   /\ active_tasks' = [active_tasks EXCEPT
                                         ![task_id].status = "in_progress",
                                         ![task_id].agents = made.agents]
                   /\ pc' = [pc EXCEPT ![task_id] = "agents"]
    /\ UNCHANGED <<agentVars, exec_frame, tmVars, now, toolVars, reply>>

\* The except block of _execute_task, lines 134-149: the task is stored as
\* failed and the plan follows; when the Task Store call raises there too
\* (recorded = FALSE) the exception leaves the block before the plan is
\* touched.
except_tasks(task_id, recorded) ==
    IF recorded THEN update_task_status(tasks, task_id, "failed") ELSE tasks

except_plans(task_id, recorded) ==
    IF recorded /\ task_id \in DOMAIN active_tasks
        THEN [active_tasks EXCEPT ![task_id].status = "failed"]
        ELSE active_tasks

\* _execute_task, lines 91-131, when a Task Store call of the try block
\* raises: update_task_status(in_progress) at the start, or
\* update_task_status(completed) after the synthesis. The except block
\* runs and the flow goes to the sleep of the finally block.
execute_task_store_error(task_id, recorded) ==
    /\ task_id \in DOMAIN pc
    /\ pc[task_id] \in {"scheduled", "synthesis"}
    /\ task_id \in DOMAIN active_tasks
    /\ tasks' = except_tasks(task_id, recorded)
    /\ active_tasks' = except_plans(task_id, recorded)
    /\ pc' = [pc EXCEPT ![task_id] = "sleep"]
    /\ UNCHANGED <<agentVars, agents, exec_frame, tmVars, now, toolVars, reply>>

\* _execute_single_agent: the log is written, the task is read, the factory
\* runs the agent; any exception becomes a failure result after the error
\* log was written. log_ok says whether the Task Store answers to the calls
\* of _execute_single_agent itself, agent_ok whether it answers inside the
\* factory. With the store down the add_task_log of the except block raises
\* and the call ends with that exception.
execute_single_agent(tbl, task_id, agent, log_ok, agent_ok) ==
    IF ~log_ok
        THEN [tbl |-> tbl, raised |-> TRUE, called |-> FALSE,
              factory |-> NoOutcome,
              result |-> [agent_id |-> agent.id, success |-> FALSE]]
    ELSE IF ~task_exists(task_id)
        THEN [tbl |-> tbl, raised |-> FALSE, called |-> FALSE,
              factory |-> NoOutcome,
              result |-> [agent_id |-> agent.id, success |-> FALSE]]
        ELSE LET r == execute_agent(tbl, agent.id, agent_ok)
             IN  [tbl |-> r.tbl, raised |-> FALSE, called |-> TRUE,
                  factory |-> factory_outcome(r),
                  result |-> IF r.raised
                                THEN [agent_id |-> agent.id, success |-> FALSE]
                                ELSE r.result]

IsHigh(a)  == a.priority = "high"
NotHigh(a) == a.priority # "high"
high_priority_agents(agent_list) == SelectSeq(agent_list, IsHigh)
other_agents(agent_list)         == SelectSeq(agent_list, NotHigh)

NoAgent == [id |-> None, type |-> "none", priority |-> "none"]

\* _execute_agents, lines 213-221: the agent the loops run next outside
\* asyncio.gather, the high-priority agents in list order and then a single
\* remaining agent; NoAgent when there is none. started counts the calls
\* made so far.
next_agent(agent_list, started) ==
    LET high   == high_priority_agents(agent_list)
        others == other_agents(agent_list)
    IN  IF started < Len(high) THEN high[started + 1]
        ELSE IF Len(others) = 1 /\ started = Len(high) THEN others[1]
        ELSE NoAgent

calls_started(frame) == Len(frame.agent_results) + Cardinality(frame.running)

\* A loop that makes its next call without awaiting the previous one.
may_begin_unawaited(frame) == TRUE

\* `result = await self._execute_single_agent(...)`, lines 214 and 220: the
\* next call is made only when the previous one has returned.
may_begin(frame) == frame.running = {}

\* The dict of the plan's agent list with this id.
agent_of(agent_list, agent_id) ==
    agent_list[CHOOSE k \in DOMAIN agent_list : agent_list[k].id = agent_id]

\* _execute_agents calls _execute_single_agent for the next agent.
execute_single_agent_begin(task_id) ==
    /\ task_id \in DOMAIN pc
    /\ pc[task_id] = "agents"
    /\ LET frame == exec_frame[task_id]
           agent == next_agent(active_tasks[task_id].agents, calls_started(frame))
       IN  /\ may_begin(frame)
           /\ agent # NoAgent
           /\ exec_frame' = [exec_frame EXCEPT ![task_id].running = @ \cup {agent.id}]
    /\ UNCHANGED <<agentVars, tasks, agents, active_tasks, pc, tmVars, now, toolVars, reply>>

\* That call ends. A returned result is appended (lines 215, 221); an
\* exception leaves _execute_agents and is handled by the except block of
\* _execute_task.
execute_single_agent_end(task_id, agent_id, log_ok, agent_ok, recorded) ==
    /\ task_id \in DOMAIN pc
    /\ pc[task_id] = "agents"
    /\ agent_id \in exec_frame[task_id].running
    /\ LET agent == agent_of(active_tasks[task_id].agents, agent_id)
           r     == execute_single_agent(agents, task_id, agent, log_ok, agent_ok)
           seen  == IF r.called
                       THEN Put(exec_frame[task_id].factory, agent_id, r.factory)
                       ELSE exec_frame[task_id].factory
       IN  /\ agents' = r.tbl
           /\ IF r.raised
                 THEN /\ tasks' = except_tasks(task_id, recorded)
                      /\ active_tasks' = except_plans(task_id, recorded)
                      /\ exec_frame' = [exec_frame EXCEPT
                                           ![task_id].running = @ \ {agent_id},
                                           ![task_id].factory = seen]
                      /\ pc' = [pc EXCEPT ![task_id] = "sleep"]
                 ELSE /\ exec_frame' = [exec_frame EXCEPT
                                           ![task_id].running = @ \ {agent_id},
                                           ![task_id].factory = seen,
                                           ![task_id].agent_results = Append(@, r.result)]
                      /\ UNCHANGED <<tasks, active_tasks, pc>>
    /\ UNCHANGED <<agentVars, tmVars, now, toolVars, reply>>

\* Lines 222-228: two or more remaining agents; asyncio.gather starts one
\* _execute_single_agent call for each.
execute_agents_gather(task_id) ==
    /\ task_id \in DOMAIN pc
    /\ pc[task_id] = "agents"
    /\ LET frame  == exec_frame[task_id]
           plan   == active_tasks[task_id]
           others == other_agents(plan.agents)
       IN  /\ may_begin(frame)
           /\ next_agent(plan.agents, calls_started(frame)) = NoAgent
           /\ Len(others) >= 2
           /\ exec_frame' = [exec_frame EXCEPT
                                 ![task_id].pending = DOMAIN others,
                                 ![task_id].running = {others[i].id : i \in DOMAIN others},
                                 ![task_id].parallel_results = EmptyMap]
    /\ pc' = [pc EXCEPT ![task_id] = "gather"]
    /\ UNCHANGED <<agentVars, tasks, agents, active_tasks, tmVars, now, toolVars, reply>>

\* Lines 218-221, 240 and 107: no agent is left to run and no gather is
\* needed; the list is returned and stored in the plan.
execute_agents_return(task_id) ==
    /\ task_id \in DOMAIN pc
    /\ pc[task_id] = "agents"
    /\ LET frame == exec_frame[task_id]
           plan  == active_tasks[task_id]
       IN  /\ may_begin(frame)
           /\ next_agent(plan.agents, calls_started(frame)) = NoAgent
           /\ Len(other_agents(plan.agents)) <= 1
           /\ active_tasks' = [active_tasks EXCEPT
                                 ![task_id].results = frame.agent_results]
    /\ pc' = [pc EXCEPT ![task_id] = "synthesis"]
    /\ UNCHANGED <<agentVars, tasks, agents, exec_frame, tmVars, now, toolVars, reply>>

\* Lines 231-236: an exception that gather handed back becomes this entry.
exception_entry == [agent_id |-> None, success |-> FALSE]

\* One coroutine of the asyncio.gather of line 228 ends; with
\* return_exceptions=True an exception is kept as that call's result.
gather_agent(task_id, i, log_ok, agent_ok) ==
    /\ task_id \in DOMAIN pc
    /\ pc[task_id] = "gather"
    /\ i \in exec_frame[task_id].pending
    /\ LET others == other_agents(active_tasks[task_id].agents)
           r      == execute_single_agent(agents, task_id, others[i], log_ok, agent_ok)
           seen   == IF r.called
                        THEN Put(exec_frame[task_id].factory, others[i].id, r.factory)
                        ELSE exec_frame[task_id].factory
       IN  /\ agents' = r.tbl
           /\ exec_frame' = [exec_frame EXCEPT
                 ![task_id].pending = @ \ {i},
                 ![task_id].running = @ \ {others[i].id},
                 ![task_id].factory = seen,
                 ![task_id].parallel_results =
                     Put(@, i, IF r.raised THEN exception_entry ELSE r.result)]
    /\ UNCHANGED <<agentVars, tasks, active_tasks, pc, tmVars, now, toolVars, reply>>

\* Lines 228-240 and 107: gather returns the results in list order; they
\* are appended and stored in the plan.
gather_done(task_id) ==
    /\ task_id \in DOMAIN pc
    /\ pc[task_id] = "gather"
    /\ exec_frame[task_id].pending = {}
    /\ LET f   == exec_frame[task_id]
           n   == Cardinality(DOMAIN f.parallel_results)
           all == f.agent_results \o [i \in 1..n |-> f.parallel_results[i]]
       IN  /\ active_tasks' = [active_tasks EXCEPT ![task_id].results = all]
           /\ exec_frame' = [exec_frame EXCEPT
                                 ![task_id] = [NoFrame EXCEPT !.factory = f.factory]]
    /\ pc' = [pc EXCEPT ![task_id] = "synthesis"]
    /\ UNCHANGED <<agentVars, tasks, agents, tmVars, now, toolVars, reply>>

\* Lines 110-149: the synthesis returns;\* Lines 110-149: the synthesis returns; the task is stored as completed and
\* the plan follows; store_task_result then hands the result to the Memory
\* Service, and if that raises the except block stores the task as failed.
execute_task_finish(task_id, memory_ok) ==
    /\ task_id \in DOMAIN pc
    /\ pc[task_id] = "synthesis"
    /\ LET final == IF memory_ok THEN "completed" ELSE "failed"
       IN  /\ tasks' = update_task_status(
                          update_task_status(tasks, task_id, "completed"),
                          task_id, final)
           /\ active_tasks' = [active_tasks EXCEPT ![task_id].status = final]
    /\ memory' = IF memory_ok
                    THEN Append(memory, [content_type |-> "task_result",
                                         task_id |-> task_id])
                    ELSE memory
    /\ pc' = [pc EXCEPT ![task_id] = "sleep"]
    /\ UNCHANGED <<agentVars, agents, exec_frame, task_workflows, task_dependencies,
                   task_timeouts, now, toolVars, reply>>

\* Lines 151-155: after the grace window the plan is evicted.
execute_task_evict(task_id) ==
    /\ task_id \in DOMAIN pc
    /\ pc[task_id] = "sleep"
    /\ active_tasks' = IF task_id \in DOMAIN active_tasks
                          THEN Del(active_tasks, task_id)
                          ELSE active_tasks
    /\ pc' = [pc EXCEPT ![task_id] = "done"]
    /\ UNCHANGED <<agentVars, tasks, agents, exec_frame, tmVars, now, toolVars, reply>>

RECURSIVE cancel_agents(_, _)
cancel_agents(tbl, ids) ==
    IF ids = {} THEN tbl
    ELSE LET a == CHOOSE x \in ids : TRUE
         IN  cancel_agents(IF tbl[a].status = "active"
                              THEN update_agent_status(tbl, a, "cancelled")
                              ELSE tbl,
                           ids \ {a})

\* cancel_task.
cancel_task(task_id) ==
    /\ IF task_id \in DOMAIN active_tasks
          THEN /\ active_tasks' = [active_tasks EXCEPT ![task_id].status = "cancelled"]
               /\ tasks' = update_task_status(tasks, task_id, "cancelled")
               /\ agents' = cancel_agents(agents, get_task_agents(agents, task_id))
               /\ reply' = [op |-> "cancel_task", task_id |-> task_id,
                            status |-> "cancelled"]
          ELSE /\ reply' = [op |-> "cancel_task", task_id |-> task_id,
                            status |-> "error"]
               /\ UNCHANGED <<tasks, agents, active_tasks>>
    /\ UNCHANGED <<agentVars, pc, exec_frame, tmVars, now, toolVars>>

\* cancel_task when the update_task_status of line 399 raises: the plan has
\* been set to cancelled at line 396, the exception leaves cancel_task
\* before the store and the agents are written.
cancel_task_store_error(task_id) ==
    /\ task_id \in DOMAIN active_tasks
    /\ active_tasks' = [active_tasks EXCEPT ![task_id].status = "cancelled"]
    /\ reply' = [op |-> "cancel_task", task_id |-> task_id, status |-> "raised"]
    /\ UNCHANGED <<agentVars, tasks, agents, pc, exec_frame, tmVars, now, toolVars>>

\* get_task_status: the status it reports, from the plan when there is one,
\* from the store otherwise, "error" when neither has the task.
task_status_view(task_id) ==
    IF task_id \in DOMAIN active_tasks THEN active_tasks[task_id].status
    ELSE IF task_exists(task_id) THEN tasks[task_id].status
    ELSE "error"

get_task_status(task_id) ==
    /\ reply' = [op |-> "get_task_status", task_id |-> task_id,
                 status |-> task_status_view(task_id)]
    /\ UNCHANGED <<agentVars, orchVars, tmVars, now, toolVars>>

----------------------------------------------------------------------------
(* Task Workflow Manager (src/core/task_manager.py).                       *)

NoTime == -1

\* create_task_workflow: the workflow replaces any earlier one of the task,
\* the deadline is set, and the dependencies are recorded when the list is
\* not empty. steps is len(workflow["steps"]).
create_task_workflow(task_id, n_steps, dependencies) ==
    /\ task_workflows' = Put(task_workflows, task_id,
            [steps        |-> n_steps,
             current_step |-> 0,
             step_results |-> <<>>,
             status       |-> "pending",
             created_at   |-> now,
             completed_at |-> NoTime,
             dependencies |-> dependencies])
    /\ task_timeouts' = Put(task_timeouts, task_id, now + default_timeout)
    /\ task_dependencies' = IF dependencies # <<>>
                               THEN Put(task_dependencies, task_id, dependencies)
                               ELSE task_dependencies
    /\ reply' = [op |-> "create_task_workflow", task_id |-> task_id]
    /\ UNCHANGED <<agentVars, orchVars, memory, now, toolVars>>

\* Line 77: the range check of execute_workflow_step.
step_index_out_of_range(workflow, step_index) ==
    step_index >= workflow.steps

\* Line 80: workflow["steps"][step_index]; a Python list takes the indices
\* -len .. len-1 and raises IndexError for any other.
step_lookup_ok(workflow, step_index) ==
    /\ step_index >= -workflow.steps
    /\ step_index < workflow.steps

\* apply_step_result with the completion test written > instead of >=.
apply_step_result_strict(workflow, step_index, success) ==
    LET w1 == [workflow EXCEPT
                  !.step_results = Append(@, [step_index  |-> step_index,
                                              executed_at |-> now,
                                              success     |-> success]),
                  !.current_step = step_index + 1]
    IN  IF w1.current_step > w1.steps
           THEN [w1 EXCEPT !.status = "completed", !.completed_at = now]
           ELSE w1

\* Lines 81-96: the workflow after the step result is recorded.
apply_step_result(workflow, step_index, success) ==
    LET w1 == [workflow EXCEPT
                  !.step_results = Append(@, [step_index  |-> step_index,
                                              executed_at |-> now,
                                              success     |-> success]),
                  !.current_step = step_index + 1]
    IN  IF w1.current_step >= w1.steps
           THEN [w1 EXCEPT !.status = "completed", !.completed_at = now]
           ELSE w1

\* _store_workflow_result: the summary handed to memory_service.store_memory.
workflow_summary(task_id, workflow) ==
    [content_type     |-> "workflow_result",
     task_id          |-> task_id,
     total_steps      |-> workflow.steps,
     successful_steps |-> Len(SelectSeq(workflow.step_results,
                                        LAMBDA r : r.success))]

\* execute_workflow_step with the step result recorded before the step index
\* is validated.
execute_workflow_step_record_first(task_id, step_index, success, memory_ok) ==
    /\ IF task_id \notin DOMAIN task_workflows
          THEN /\ reply' = [op |-> "execute_workflow_step", task_id |-> task_id,
                            step_index |-> step_index, raised |-> "ValueError"]
               /\ UNCHANGED <<task_workflows, memory>>
          ELSE LET workflow == task_workflows[task_id]
                   w2 == apply_step_result(workflow, step_index, success)
               IN  /\ task_workflows' = [task_workflows EXCEPT ![task_id] = w2]
                   /\ memory' = memory
                   /\ reply' = [op |-> "execute_workflow_step",
                                task_id |-> task_id,
                                step_index |-> step_index,
                                raised |-> IF step_index_out_of_range(workflow, step_index)
                                              THEN "ValueError" ELSE "no"]
    /\ UNCHANGED <<agentVars, orchVars, task_dependencies, task_timeouts, now, toolVars>>

\* execute_workflow_step. memory_ok says whether store_memory returns or
\* raises; it is asked only when the workflow completes.
execute_workflow_step(task_id, step_index, success, memory_ok) ==
    /\ IF task_id \notin DOMAIN task_workflows
          THEN /\ reply' = [op |-> "execute_workflow_step", task_id |-> task_id,
                            step_index |-> step_index, raised |-> "ValueError"]
               /\ UNCHANGED <<task_workflows, memory>>
          ELSE LET workflow == task_workflows[task_id]
               IN  IF step_index_out_of_range(workflow, step_index)
                      THEN /\ reply' = [op |-> "execute_workflow_step",
                                        task_id |-> task_id,
                                        step_index |-> step_index,
                                        raised |-> "ValueError"]
                           /\ UNCHANGED <<task_workflows, memory>>
                   ELSE IF ~step_lookup_ok(workflow, step_index)
                      THEN /\ reply' = [op |-> "execute_workflow_step",
                                        task_id |-> task_id,
                                        step_index |-> step_index,
                                        raised |-> "IndexError"]
                           /\ UNCHANGED <<task_workflows, memory>>
                   ELSE LET w2 == apply_step_result(workflow, step_index, success)
                            completes == w2.current_step >= w2.steps
                        IN  /\ task_workflows' = [task_workflows EXCEPT ![task_id] = w2]
                            /\ memory' = IF completes /\ memory_ok
                                            THEN Append(memory, workflow_summary(task_id, w2))
                                            ELSE memory
                            /\ reply' = [op |-> "execute_workflow_step",
                                         task_id |-> task_id,
                                         step_index |-> step_index,
                                         raised |-> IF completes /\ ~memory_ok
                                                       THEN "MemoryError" ELSE "no"]
    /\ UNCHANGED <<agentVars, orchVars, task_dependencies, task_timeouts, now, toolVars>>

\* _estimate_completion_time: the completion time of a completed workflow,
\* None while no step result has success, otherwise the clock plus the
\* remaining steps times the mean time per recorded step (the durations add
\* up to the time from created_at to the last executed_at). Times are whole
\* seconds.
estimate_completion_time(workflow) ==
    LET completed_steps == Len(SelectSeq(workflow.step_results, LAMBDA r : r.success))
        recorded == Len(workflow.step_results)
        elapsed == workflow.step_results[recorded].executed_at - workflow.created_at
    IN  IF workflow.status = "completed" THEN workflow.completed_at
        ELSE IF completed_steps = 0 THEN NoTime
        ELSE now + ((workflow.steps - completed_steps) * elapsed) \div recorded

\* The dict get_task_progress builds for a task that has a workflow. The
\* percentage completed_steps / total_steps * 100 is kept as a fraction.
workflow_progress(workflow, is_timed_out) ==
    LET total_steps == workflow.steps
        completed_steps == Len(SelectSeq(workflow.step_results, LAMBDA r : r.success))
        failed_steps == Len(SelectSeq(workflow.step_results, LAMBDA r : ~r.success))
    IN  [status |-> workflow.status,
         progress_percentage |->
            IF total_steps > 0
               THEN [num |-> completed_steps * 100, den |-> total_steps]
               ELSE [num |-> 0, den |-> 1],
         current_step |-> workflow.current_step,
         total_steps |-> total_steps,
         completed_steps |-> completed_steps,
         failed_steps |-> failed_steps,
         has_workflow |-> TRUE,
         is_timed_out |-> is_timed_out,
         estimated_completion |-> estimate_completion_time(workflow)]

\* get_task_progress: the progress of the workflow; for a task without
\* workflow the stored status with 100 or 0 percent, or the error.
get_task_progress(task_id) ==
    /\ reply' =
          IF task_id \in DOMAIN task_workflows
             THEN [op |-> "get_task_progress", task_id |-> task_id,
                   progress |->
                      workflow_progress(task_workflows[task_id],
                                        /\ task_id \in DOMAIN task_timeouts
                                        /\ now > task_timeouts[task_id])]
          ELSE IF task_exists(task_id)
             THEN [op |-> "get_task_progress", task_id |-> task_id,
                   progress |->
                      [status |-> tasks[task_id].status,
                       progress_percentage |->
                          [num |-> IF tasks[task_id].status = "completed"
                                      THEN 100 ELSE 0,
                           den |-> 1],
                       has_workflow |-> FALSE]]
             ELSE [op |-> "get_task_progress", task_id |-> task_id,
                   progress |-> [error |-> "not found"]]
    /\ UNCHANGED <<agentVars, orchVars, tmVars, now, toolVars>>

\* pending_dependencies without the test for a missing task.
RECURSIVE pending_dependencies_missing_ok(_, _)
pending_dependencies_missing_ok(dependencies, tbl) ==
    IF dependencies = <<>> THEN <<>>
    ELSE LET d    == Head(dependencies)
             rest == pending_dependencies_missing_ok(Tail(dependencies), tbl)
         IN  IF d \in DOMAIN tbl /\ tbl[d].status # "completed"
                THEN <<d>> \o rest
                ELSE rest

\* check_task_dependencies: a dependency is pending when its task is missing
\* from the store or its status is not "completed".
RECURSIVE pending_dependencies(_, _)
pending_dependencies(dependencies, tbl) ==
    IF dependencies = <<>> THEN <<>>
    ELSE LET d    == Head(dependencies)
             rest == pending_dependencies(Tail(dependencies), tbl)
         IN  IF d \notin DOMAIN tbl \/ tbl[d].status # "completed"
                THEN <<d>> \o rest
                ELSE rest

check_task_dependencies(task_id) ==
    LET dependencies == IF task_id \in DOMAIN task_dependencies
                           THEN task_dependencies[task_id] ELSE <<>>
        pending == pending_dependencies(dependencies, tasks)
    IN  IF dependencies = <<>>
           THEN [satisfied |-> TRUE, pending_dependencies |-> <<>>]
           ELSE [satisfied |-> (Len(pending) = 0), pending_dependencies |-> pending]

check_dependencies(task_id) ==
    /\ reply' = [op |-> "check_task_dependencies", task_id |-> task_id,
                 value |-> check_task_dependencies(task_id)]
    /\ UNCHANGED <<agentVars, orchVars, tmVars, now, toolVars>>

\* pause_task that accepts a workflow in any status.
pause_task_any_status(task_id) ==
    /\ IF task_id \in DOMAIN task_workflows
          THEN /\ task_workflows' = [task_workflows EXCEPT ![task_id] =
                      Put([@ EXCEPT !.status = "paused"], "paused_at", now)]
               /\ tasks' = update_task_status(tasks, task_id, "paused")
               /\ reply' = [op |-> "pause_task", task_id |-> task_id, status |-> "paused"]
          ELSE /\ reply' = [op |-> "pause_task", task_id |-> task_id, status |-> "error"]
               /\ UNCHANGED <<task_workflows, tasks>>
    /\ UNCHANGED <<agentVars, agents, active_tasks, pc, exec_frame, task_dependencies,
                   task_timeouts, memory, now, toolVars>>

\* pause_task.
pause_task(task_id) ==
    /\ IF task_id \in DOMAIN task_workflows
          /\ task_workflows[task_id].status = "in_progress"
          THEN /\ task_workflows' = [task_workflows EXCEPT ![task_id] =
                      Put([@ EXCEPT !.status = "paused"], "paused_at", now)]
               /\ tasks' = update_task_status(tasks, task_id, "paused")
               /\ reply' = [op |-> "pause_task", task_id |-> task_id, status |-> "paused"]
          ELSE /\ reply' = [op |-> "pause_task", task_id |-> task_id, status |-> "error"]
               /\ UNCHANGED <<task_workflows, tasks>>
    /\ UNCHANGED <<agentVars, agents, active_tasks, pc, exec_frame, task_dependencies,
                   task_timeouts, memory, now, toolVars>>

\* resume_task.
resume_task(task_id) ==
    /\ IF task_id \in DOMAIN task_workflows
          /\ task_workflows[task_id].status = "paused"
          THEN /\ task_workflows' = [task_workflows EXCEPT ![task_id] =
                      Put([@ EXCEPT !.status = "in_progress"], "resumed_at", now)]
               /\ tasks' = update_task_status(tasks, task_id, "in_progress")
               /\ reply' = [op |-> "resume_task", task_id |-> task_id, status |-> "resumed"]
          ELSE /\ reply' = [op |-> "resume_task", task_id |-> task_id, status |-> "error"]
               /\ UNCHANGED <<task_workflows, tasks>>
    /\ UNCHANGED <<agentVars, agents, active_tasks, pc, exec_frame, task_dependencies,
                   task_timeouts, memory, now, toolVars>>

\* get_recent_tasks: the ids of the limit newest rows, newest first
\* (ORDER BY created_at DESC LIMIT limit); created_at grows with the id.
get_recent_tasks(tbl, limit) ==
    LET n == Len(tbl)
        k == IF n < limit THEN n ELSE limit
    IN  [i \in 1..k |-> n + 1 - i]

IsPendingTask(task_id) == tasks[task_id].status = "pending"

EmptyPlan ==
    [immediate_execution |-> <<>>, dependency_waiting |-> <<>>,
     resource_limited |-> <<>>, recommendations |-> <<>>]

\* The loop of optimize_task_scheduling over the pending tasks, in the order
\* of the list.
RECURSIVE schedule_tasks(_, _)
schedule_tasks(pending_tasks, scheduling_plan) ==
    IF pending_tasks = <<>> THEN scheduling_plan
    ELSE LET task_id   == Head(pending_tasks)
             dep_check == check_task_dependencies(task_id)
             plan ==
                IF dep_check.satisfied
                   THEN IF Len(scheduling_plan.immediate_execution) < max_concurrent_tasks
                           THEN [scheduling_plan EXCEPT !.immediate_execution =
                                   Append(@, [task_id    |-> task_id,
                                              priority   |-> tasks[task_id].priority,
                                              created_at |-> tasks[task_id].created_at])]
                           ELSE [scheduling_plan EXCEPT !.resource_limited =
                                   Append(@, [task_id  |-> task_id,
                                              priority |-> tasks[task_id].priority,
                                              reason   |-> "Max concurrent tasks reached"])]
                   ELSE [scheduling_plan EXCEPT !.dependency_waiting =
                           Append(@, [task_id |-> task_id,
                                      pending_dependencies |->
                                          dep_check.pending_dependencies])]
         IN  schedule_tasks(Tail(pending_tasks), plan)

add_recommendations(plan) ==
    [plan EXCEPT !.recommendations =
        (IF Len(plan.resource_limited) > 0
            THEN <<"Consider increasing max_concurrent_tasks">> ELSE <<>>)
        \o (IF Len(plan.dependency_waiting) > 0
            THEN <<"Some tasks are waiting for dependencies">> ELSE <<>>)]

\* optimize_task_scheduling.
optimize_task_scheduling ==
    /\ LET recent        == get_recent_tasks(tasks, recent_limit)
           pending_tasks == SelectSeq(recent, IsPendingTask)
       IN  reply' = [op |-> "optimize_task_scheduling",
                     value |-> add_recommendations(
                                   schedule_tasks(pending_tasks, EmptyPlan))]
    /\ UNCHANGED <<agentVars, orchVars, tmVars, now, toolVars>>


\* cleanup_completed_workflows, the first loop without the comparison with
\* the cutoff: every completed workflow is selected.
workflows_to_remove_all_completed(workflows, cutoff_time) ==
    {task_id \in DOMAIN workflows : workflows[task_id].status = "completed"}

\* cleanup_completed_workflows, the first loop: the ids of the workflows
\* with status completed whose completed_at (the clock, if the key is not
\* there) is before the cutoff.
workflows_to_remove(workflows, cutoff_time) ==
    {task_id \in DOMAIN workflows :
        /\ workflows[task_id].status = "completed"
        /\ (IF workflows[task_id].completed_at = NoTime
               THEN now ELSE workflows[task_id].completed_at) < cutoff_time}

\* cleanup_completed_workflows(older_than_hours); the clock counts minutes.
cleanup_completed_workflows(older_than_hours) ==
    LET cutoff_time == now - 60 * older_than_hours
        removed == workflows_to_remove(task_workflows, cutoff_time)
    IN  /\ task_workflows' = [t \in DOMAIN task_workflows \ removed |-> task_workflows[t]]
        /\ task_timeouts' = [t \in DOMAIN task_timeouts \ removed |-> task_timeouts[t]]
        /\ task_dependencies' =
              [t \in DOMAIN task_dependencies \ removed |-> task_dependencies[t]]
        /\ reply' = [op |-> "cleanup_completed_workflows",
                     cleaned_workflows |-> Cardinality(removed)]
        /\ UNCHANGED <<agentVars, orchVars, memory, now, toolVars>>

\* The clock read by datetime.now() moves on by a number of minutes.
clock_advance(minutes) ==
    /\ now' = now + minutes
    /\ UNCHANGED <<agentVars, orchVars, tmVars, reply, toolVars>>

----------------------------------------------------------------------------
(* Tool Registry (src/tools/tool_registry.py) and Tool Executor            *)
(* (src/tools/tool_executor.py).                                           *)
(*                                                                         *)
(* Strings that are scanned or evaluated (conditions, context keys, the    *)
(* str() of a value) are sequences of tokens; a replacement replaces the   *)
(* tokens equal to the key. Python values are written as their repr.       *)

\* Three of the tools of register_default_tools: http_request awaits network
\* I/O inside execute, calculator and text_summarizer never suspend. Any other name is not
\* registered.
RegisteredTools == {"http_request", "calculator", "text_summarizer"}
SuspendingTools == {"http_request"}

get_tool(name) == name \in RegisteredTools

\* The values a capability can return, by their repr; "raise" is a call of
\* the capability that raises.
ToolValues   == {"True", "False", "import os"}
ToolOutcomes == ToolValues \cup {"raise"}

success_result(tool_name, value) ==
    [success |-> TRUE, tool_name |-> tool_name, result |-> value, error |-> "None"]

failure_result(tool_name, error) ==
    [success |-> FALSE, tool_name |-> tool_name, result |-> "None", error |-> error]

\* ToolRegistry.execute_tool for a registered tool: what the capability
\* returned is wrapped as a success, what it raised as a failure.
execute_tool(tool_name, outcome) ==
    IF outcome = "raise"
       THEN failure_result(tool_name, "ToolError")
       ELSE success_result(tool_name, outcome)

\* The except block without the removal from the active set.
single_tool_except_keep(active, history, executions, record, error) ==
    LET failed == [record EXCEPT !.status = "error"]
    IN  [active     |-> active,
         history    |-> Append(history, failed),
         executions |-> executions,
         result     |-> failure_result(record.tool_name, error)]

\* execute_single_tool, the except block: the record gets status "error",
\* goes to the history and leaves the active set if it is there.
single_tool_except(active, history, executions, record, error) ==
    LET failed == [record EXCEPT !.status = "error"]
    IN  [active     |-> IF record.execution_id \in DOMAIN active
                           THEN Del(active, record.execution_id) ELSE active,
         history    |-> Append(history, failed),
         executions |-> executions,
         result     |-> failure_result(record.tool_name, error)]

\* execute_single_tool from the tool's result on: the record and the store
\* row take the final status, the record moves to the history. A missing key
\* at the del raises KeyError inside the try: the except block then marks
\* the record (already in the history, the same object) and appends it again.
single_tool_complete(active, history, executions, call, result, update_ok) ==
    LET record == [call.execution_record EXCEPT
                      !.status = IF result.success THEN "completed" ELSE "failed"]
        failed == [record EXCEPT !.status = "error"]
        stored == [executions EXCEPT ![call.db_execution].status = record.status]
    IN  IF ~update_ok
           THEN single_tool_except(active, history, executions, record, "DatabaseError")
        ELSE IF record.execution_id \in DOMAIN active
           THEN [active     |-> Del(active, record.execution_id),
                 history    |-> Append(history, record),
                 executions |-> stored,
                 result     |-> result]
           ELSE [active     |-> active,
                 history    |-> history \o <<failed, failed>>,
                 executions |-> stored,
                 result     |-> failure_result(record.tool_name, "KeyError")]

NoCall == [execution_record |-> [execution_id |-> <<>>], db_execution |-> 0]

\* execute_single_tool up to the first point where it can be suspended: the
\* execution id is built from the agent, the tool and the clock, the record
\* enters the active set, the store row is created, the tool is looked up
\* and its parameters validated. A tool that awaits I/O leaves the call
\* suspended; any other path runs to the return.
\* inp = [create_ok, params_ok, outcome, update_ok] are the environment's
\* answers: the two Task Store calls, the validation and the capability.
execute_single_tool_begin(active, history, executions, agent_id, tool_name, inp) ==
    LET execution_id == <<agent_id, tool_name, now>>
        record == [execution_id |-> execution_id, agent_id |-> agent_id,
                   tool_name |-> tool_name, status |-> "running"]
        active1 == Put(active, execution_id, record)
        executions1 == Append(executions, [agent_id |-> agent_id, action |-> tool_name,
                                           status |-> "pending"])
        call == [execution_record |-> record, db_execution |-> Len(executions1)]
        done(r) == [active |-> r.active, history |-> r.history,
                    executions |-> r.executions, result |-> r.result,
                    suspended |-> FALSE, call |-> NoCall, invoked |-> FALSE]
    IN  IF ~inp.create_ok
           THEN done(single_tool_except(active1, history, executions, record,
                                        "DatabaseError"))
        ELSE IF ~get_tool(tool_name)
           THEN done(single_tool_except(active1, history, executions1, record,
                                        "ValueError"))
        ELSE IF ~inp.params_ok
           THEN done(single_tool_complete(active1, history, executions1, call,
                        failure_result(tool_name, "Missing required parameter"),
                        inp.update_ok))
        ELSE IF tool_name \in SuspendingTools
           THEN [active |-> active1, history |-> history, executions |-> executions1,
                 result |-> failure_result(tool_name, "pending"),
                 suspended |-> TRUE, call |-> call, invoked |-> TRUE]
           ELSE [done(single_tool_complete(active1, history, executions1, call,
                        execute_tool(tool_name, inp.outcome), inp.update_ok))
                   EXCEPT !.invoked = TRUE]

\* execute_single_tool from the return of the awaited capability.
execute_single_tool_end(active, history, executions, call, outcome, update_ok) ==
    single_tool_complete(active, history, executions, call,
                         execute_tool(call.execution_record.tool_name, outcome),
                         update_ok)

Inputs == [create_ok : BOOLEAN, params_ok : BOOLEAN, outcome : ToolOutcomes,
           update_ok : BOOLEAN]

(* Conditions.                                                             *)

\* A dict in insertion order: a sequence of <<key, value>>.
dict_set(d, key, value) ==
    IF \E i \in DOMAIN d : d[i][1] = key
       THEN [i \in DOMAIN d |-> IF d[i][1] = key THEN <<key, value>> ELSE d[i]]
       ELSE Append(d, <<key, value>>)

\* str(value).
str(value) == IF value = "import os" THEN <<"import", "os">> ELSE <<value>>

\* text.replace(key, replacement).
RECURSIVE replace(_, _, _)
replace(text, key, replacement) ==
    IF text = <<>> THEN <<>>
    ELSE (IF Head(text) = key THEN replacement ELSE <<Head(text)>>)
         \o replace(Tail(text), key, replacement)

\* The loop over context.items(), in insertion order.
RECURSIVE resolve_condition(_, _)
resolve_condition(condition, items) ==
    IF items = <<>> THEN condition
    ELSE resolve_condition(replace(condition, items[1][1], str(items[1][2])),
                           Tail(items))

UnsafeTokens == {"import", "exec", "eval", "__class__"}

is_unsafe(text) == \E i \in DOMAIN text : text[i] \in UnsafeTokens

\* eval(text, {"__builtins__": {}}) for the expressions of the model: an
\* atom, or two atoms around ==, !=, and, or. A name other than True, False
\* and None raises NameError when it is evaluated (and / or evaluate their
\* right operand only when needed); any other text is a SyntaxError.
PyConstants == {"True", "False", "None"}

truthy(value) == value = "True"

py_bool(b) == IF b THEN "True" ELSE "False"

py_eval(text) ==
    LET raised == [raised |-> TRUE, value |-> "None"]
        atom(tok) == IF tok \in PyConstants
                        THEN [raised |-> FALSE, value |-> tok] ELSE raised
    IN  IF Len(text) = 1 THEN atom(text[1])
        ELSE IF Len(text) = 3 /\ text[2] \in {"==", "!=", "and", "or"}
           THEN LET left  == atom(text[1])
                    right == atom(text[3])
                IN  IF left.raised THEN raised
                    ELSE IF text[2] = "and"
                       THEN IF truthy(left.value) THEN right ELSE left
                    ELSE IF text[2] = "or"
                       THEN IF truthy(left.value) THEN left ELSE right
                    ELSE IF right.raised THEN raised
                    ELSE IF text[2] = "=="
                       THEN [raised |-> FALSE, value |-> py_bool(left.value = right.value)]
                       ELSE [raised |-> FALSE, value |-> py_bool(left.value # right.value)]
        ELSE raised

\* _evaluate_condition with a verdict that depends on the position of the
\* step in the chain.
evaluate_condition_by_position(condition, context) ==
    [value   |-> IF chain.step_index > 1 THEN "False"
                 ELSE py_eval(resolve_condition(condition, context)).value,
     context |-> context,
     raised  |-> FALSE]

\* _evaluate_condition without its try / except: an exception of eval goes
\* to the caller.
evaluate_condition_unguarded(condition, context) ==
    LET resolved_condition == resolve_condition(condition, context)
        evaluated == py_eval(resolved_condition)
    IN  [value   |-> IF is_unsafe(resolved_condition) THEN "False"
                     ELSE evaluated.value,
         context |-> context,
         raised  |-> ~is_unsafe(resolved_condition) /\ evaluated.raised]

\* _evaluate_condition: the value it returns, the context it leaves and
\* whether it raised. The keys are replaced by the str of their values, an
\* unsafe text gives False, an exception is caught and gives False, and the
\* context dict is only read.
evaluate_condition(condition, context) ==
    LET resolved_condition == resolve_condition(condition, context)
        evaluated == py_eval(resolved_condition)
    IN  [value   |-> IF is_unsafe(resolved_condition) THEN "False"
                     ELSE IF evaluated.raised THEN "False"
                     ELSE evaluated.value,
         context |-> context,
         raised  |-> FALSE]

(* execute_tool_workflow.                                                  *)

IdleChain ==
    [pc |-> "idle", agent_id |-> 0, workflow |-> <<>>, step_index |-> 0,
     results |-> <<>>, workflow_context |-> <<>>, invoked |-> <<>>,
     evaluations |-> <<>>]

step_result_key(step_index) == "step_" \o ToString(step_index) \o "_result"
tool_result_key(tool_name)  == tool_name \o "_result"

ChainCall == 0      \* the key in calls of the chain's execute_single_tool call

\* The end of a loop iteration as a break: the loop is left.
chain_break(c) == [c EXCEPT !.pc = "returned"]

\* The end of a loop iteration: the next step, or the return after the last.
chain_next_step(c) ==
    IF c.step_index + 1 >= Len(c.workflow)
       THEN [c EXCEPT !.pc = "returned"]
       ELSE [c EXCEPT !.pc = "loop", !.step_index = @ + 1]

\* chain_after_tool without the break on a failed step.
chain_after_tool_no_break(c, result) ==
    LET step  == c.workflow[c.step_index + 1]
        entry == [success |-> result.success, tool_name |-> result.tool_name,
                  result |-> result.result, error |-> result.error,
                  step |-> c.step_index,
                  workflow_position |-> <<c.step_index + 1, Len(c.workflow)>>]
        c1    == [c EXCEPT !.results = Append(@, entry),
                           !.workflow_context =
                               IF result.success
                                  THEN dict_set(dict_set(@, step_result_key(c.step_index),
                                                         result.result),
                                                tool_result_key(step.tool), result.result)
                                  ELSE @]
    IN  IF step.delay_seconds > 0
           THEN [c1 EXCEPT !.pc = "delay"]
           ELSE chain_next_step(c1)

\* The loop body after execute_single_tool returned: the result is tagged and
\* appended, a success enters the context under both keys, a failure without
\* continue_on_error ends the loop, a delay suspends the chain.
chain_after_tool(c, result) ==
    LET step  == c.workflow[c.step_index + 1]
        entry == [success |-> result.success, tool_name |-> result.tool_name,
                  result |-> result.result, error |-> result.error,
                  step |-> c.step_index,
                  workflow_position |-> <<c.step_index + 1, Len(c.workflow)>>]
        c1    == [c EXCEPT !.results = Append(@, entry),
                           !.workflow_context =
                               IF result.success
                                  THEN dict_set(dict_set(@, step_result_key(c.step_index),
                                                         result.result),
                                                tool_result_key(step.tool), result.result)
                                  ELSE @]
    IN  IF ~result.success /\ ~step.continue_on_error
           THEN [c1 EXCEPT !.pc = "returned"]
        ELSE IF step.delay_seconds > 0
           THEN [c1 EXCEPT !.pc = "delay"]
           ELSE chain_next_step(c1)

chain_reply(c) ==
    IF c.pc = "returned"
       THEN [op |-> "execute_tool_workflow", value |-> c.results]
    ELSE IF c.pc = "raised"
       THEN [op |-> "execute_tool_workflow", raised |-> "Exception"]
       ELSE reply

\* execute_tool_workflow is called: an empty workflow returns at once.
execute_tool_workflow(agent_id, workflow) ==
    /\ chain.pc = "idle"
    /\ LET c == [IdleChain EXCEPT !.agent_id = agent_id, !.workflow = workflow,
                                  !.pc = IF workflow = <<>> THEN "returned" ELSE "loop"]
       IN  /\ chain' = c
           /\ reply' = chain_reply(c)
    /\ UNCHANGED <<agentVars, orchVars, tmVars, now, active_executions, execution_history,
                   agent_executions, calls, par>>

\* One iteration of the loop up to the first suspension: the condition, then
\* the tool. An exception out of the condition would leave the loop and the
\* coroutine.
execute_tool_workflow_step(inp) ==
    /\ chain.pc = "loop"
    /\ LET step == chain.workflow[chain.step_index + 1]
           verdict == evaluate_condition(step.condition, chain.workflow_context)
           skip == step.condition # <<>> /\ ~truthy(verdict.value)
           c0 == IF step.condition # <<>>
                    THEN [chain EXCEPT
                            !.workflow_context = verdict.context,
                            !.evaluations = Append(@,
                                [step      |-> chain.step_index,
                                 condition |-> step.condition,
                                 context   |-> chain.workflow_context,
                                 after     |-> verdict.context,
                                 skipped   |-> skip])]
                    ELSE chain
       IN  IF step.condition # <<>> /\ verdict.raised
              THEN LET c == [c0 EXCEPT !.pc = "raised"]
                   IN  /\ chain' = c
                       /\ reply' = chain_reply(c)
                       /\ UNCHANGED <<active_executions, execution_history,
                                      agent_executions, calls>>
           ELSE IF skip
              THEN LET c == chain_next_step(
                              [c0 EXCEPT !.results = Append(@,
                                  [step |-> chain.step_index, tool |-> step.tool,
                                   skipped |-> TRUE, reason |-> "condition_not_met"])])
                   IN  /\ chain' = c
                       /\ reply' = chain_reply(c)
                       /\ UNCHANGED <<active_executions, execution_history,
                                      agent_executions, calls>>
              ELSE LET b  == execute_single_tool_begin(active_executions,
                                 execution_history, agent_executions,
                                 chain.agent_id, step.tool,
                                 [inp EXCEPT !.params_ok = step.parameters_ok])
                       c1 == [c0 EXCEPT !.invoked = Append(@, chain.step_index)]
                       c  == IF b.suspended THEN [c1 EXCEPT !.pc = "tool"]
                             ELSE chain_after_tool(c1, b.result)
                   IN  /\ active_executions' = b.active
                       /\ execution_history' = b.history
                       /\ agent_executions' = b.executions
                       /\ calls' = IF b.suspended THEN Put(calls, ChainCall, b.call)
                                   ELSE calls
                       /\ chain' = c
                       /\ reply' = chain_reply(c)
    /\ UNCHANGED <<agentVars, orchVars, tmVars, now, par>>

\* The awaited tool of the current step returns.
execute_tool_workflow_resume(outcome, update_ok) ==
    /\ chain.pc = "tool"
    /\ LET e == execute_single_tool_end(active_executions, execution_history,
                    agent_executions, calls[ChainCall], outcome, update_ok)
           c == chain_after_tool(chain, e.result)
       IN  /\ active_executions' = e.active
           /\ execution_history' = e.history
           /\ agent_executions' = e.executions
           /\ calls' = Del(calls, ChainCall)
           /\ chain' = c
           /\ reply' = chain_reply(c)
    /\ UNCHANGED <<agentVars, orchVars, tmVars, now, par>>

\* asyncio.sleep(delay) of the current step is over.
execute_tool_workflow_delay ==
    /\ chain.pc = "delay"
    /\ LET c == chain_next_step(chain)
       IN  /\ chain' = c
           /\ reply' = chain_reply(c)
    /\ UNCHANGED <<agentVars, orchVars, tmVars, now, active_executions, execution_history,
                   agent_executions, calls, par>>

\* The clock read by datetime.now() moves on.
tick ==
    /\ now' = now + 1
    /\ UNCHANGED <<agentVars, orchVars, tmVars, reply, toolVars>>

(* execute_parallel_tools.                                                 *)

IdlePar ==
    [pc |-> "idle", agent_id |-> 0, tool_specs |-> <<>>, tasks |-> <<>>,
     answers |-> <<>>, processed_results |-> <<>>]

NoAnswer == [create_ok |-> TRUE, params_ok |-> TRUE, outcome |-> "True",
             update_ok |-> TRUE]

\* The answers a call has consumed when it is suspended or has returned
\* without suspending; an answer it never asked for is left at its default.
consumed_answers(tool_name, answer, suspended) ==
    LET looked_up == answer.create_ok /\ get_tool(tool_name)
        invoked   == looked_up /\ answer.params_ok
    IN  [create_ok |-> answer.create_ok,
         params_ok |-> IF looked_up THEN answer.params_ok ELSE NoAnswer.params_ok,
         outcome   |-> IF invoked /\ ~suspended THEN answer.outcome
                       ELSE NoAnswer.outcome,
         update_ok |-> IF looked_up /\ ~suspended THEN answer.update_ok
                       ELSE NoAnswer.update_ok]

\* The processing of one gathered result: an exception object becomes a
\* failed entry, any other result gets its index.
process_result(i, result, tool_spec) ==
    IF "exception" \in DOMAIN result
       THEN [success |-> FALSE, tool_name |-> tool_spec.tool, result |-> "None",
             error |-> result.exception, parallel_index |-> i]
       ELSE [success |-> result.success, tool_name |-> result.tool_name,
             result |-> result.result, error |-> result.error,
             parallel_index |-> i]

parallel_reply(p) ==
    IF p.pc = "returned"
       THEN [op |-> "execute_parallel_tools", value |-> p.processed_results]
       ELSE reply

\* execute_parallel_tools up to the gather: one asyncio task per spec is
\* created; none of them has run yet. Without specs gather returns at once.
execute_parallel_tools(agent_id, tool_specs) ==
    /\ par.pc = "idle"
    /\ LET p == [pc |-> IF tool_specs = <<>> THEN "returned" ELSE "gather",
                 agent_id |-> agent_id,
                 tool_specs |-> tool_specs,
                 tasks |-> [i \in DOMAIN tool_specs |->
                               [state |-> "created",
                                result |-> failure_result(tool_specs[i].tool, "pending")]],
                 answers |-> [i \in DOMAIN tool_specs |-> NoAnswer],
                 processed_results |-> <<>>]
       IN  /\ par' = p
           /\ reply' = parallel_reply(p)
    /\ UNCHANGED <<agentVars, orchVars, tmVars, now, active_executions, execution_history,
                   agent_executions, calls, chain>>

\* The event loop starts the next created task (they start in the order of
\* their creation): execute_single_tool runs to its first suspension.
parallel_task_start(i, inp) ==
    /\ par.pc = "gather"
    /\ i \in DOMAIN par.tasks
    /\ par.tasks[i].state = "created"
    /\ \A j \in 1..(i - 1) : par.tasks[j].state # "created"
    /\ LET answer == [inp EXCEPT !.params_ok = par.tool_specs[i].parameters_ok]
           b == execute_single_tool_begin(active_executions, execution_history,
                    agent_executions, par.agent_id, par.tool_specs[i].tool, answer)
       IN  /\ active_executions' = b.active
           /\ execution_history' = b.history
           /\ agent_executions' = b.executions
           /\ calls' = IF b.suspended THEN Put(calls, i, b.call) ELSE calls
           /\ par' = [par EXCEPT
                        !.answers[i] = consumed_answers(par.tool_specs[i].tool,
                                                        answer, b.suspended),
                        !.tasks[i] = [state  |-> IF b.suspended THEN "running" ELSE "done",
                                      result |-> b.result]]
    /\ UNCHANGED <<agentVars, orchVars, tmVars, now, reply, chain>>

\* The awaited tool of a running task returns: execute_single_tool runs to
\* its return.
parallel_task_return(i, outcome, update_ok) ==
    /\ par.pc = "gather"
    /\ i \in DOMAIN par.tasks
    /\ par.tasks[i].state = "running"
    /\ LET e == execute_single_tool_end(active_executions, execution_history,
                    agent_executions, calls[i], outcome, update_ok)
       IN  /\ active_executions' = e.active
           /\ execution_history' = e.history
           /\ agent_executions' = e.executions
           /\ calls' = Del(calls, i)
           /\ par' = [par EXCEPT
                        !.answers[i] = [@ EXCEPT !.outcome = outcome,
                                                 !.update_ok = update_ok],
                        !.tasks[i] = [state |-> "done", result |-> e.result]]
    /\ UNCHANGED <<agentVars, orchVars, tmVars, now, reply, chain>>

\* gather returns when every task is done; the results are processed in
\* the order of the specs.
parallel_gather ==
    /\ par.pc = "gather"
    /\ \A i \in DOMAIN par.tasks : par.tasks[i].state = "done"
    /\ LET p == [par EXCEPT
                    !.pc = "returned",
                    !.processed_results =
                        [i \in DOMAIN par.tasks |->
                            process_result(i - 1, par.tasks[i].result,
                                           par.tool_specs[i])]]
       IN  /\ par' = p
           /\ reply' = parallel_reply(p)
    /\ UNCHANGED <<agentVars, orchVars, tmVars, now, active_executions, execution_history,
                   agent_executions, calls, chain>>

----------------------------------------------------------------------------
(* Tool Registry: registration (src/tools/tool_registry.py).               *)

\* The category lists of ToolRegistry.__init__.
Categories ==
    {"search", "computation", "communication", "data_processing",
     "file_operations", "general"}

\* The registry after register_default_tools, for the tools of
\* RegisteredTools: each name is bound to its capability and listed in the
\* category it was registered under.
default_registry ==
    [tools |-> [n \in RegisteredTools |->
                   IF n = "calculator" THEN "CalculatorTool"
                   ELSE IF n = "text_summarizer" THEN "TextSummarizerTool"
                   ELSE "HTTPRequestTool"],
     tool_categories |->
        [c \in Categories |->
            IF c = "computation" THEN <<"calculator">>
            ELSE IF c = "data_processing" THEN <<"text_summarizer">>
            ELSE IF c = "communication" THEN <<"http_request">>
            ELSE <<>>]]

\* register_tool: the name is bound to the capability, whatever it was bound
\* to, and appended to the list of the category, or of "general" when the
\* category is not one of the lists. Nothing is raised.
register_tool(reg, tool, category) ==
    [registry |->
        [tools |-> Put(reg.tools, tool.name, tool.capability),
         tool_categories |->
            LET c == IF category \in DOMAIN reg.tool_categories
                        THEN category ELSE "general"
            IN  [reg.tool_categories EXCEPT ![c] = Append(@, tool.name)]],
     raised |-> FALSE]

\* The tools handed to register_tool: a new capability under a registered
\* name, a registered capability once more, and a tool with a new name.
NewTools ==
    {[name |-> "calculator",   capability |-> "MathEvaluatorTool"],
     [name |-> "http_request", capability |-> "HTTPRequestTool"],
     [name |-> "json_parser",  capability |-> "JSONParserTool"]}

NewCategories == {"computation", "general", "custom"}

\* The number of entries of all the category lists.
RECURSIVE listed(_, _)
listed(reg, cats) ==
    IF cats = {} THEN 0
    ELSE LET c == CHOOSE x \in cats : TRUE
         IN  Len(reg.tool_categories[c]) + listed(reg, cats \ {c})

\* A call of tool_registry.register_tool(tool, category).
register_tool_call(tool, category) ==
    /\ LET r == register_tool(registry, tool, category)
       IN  /\ registry' = r.registry
           /\ reply' = [op |-> "register_tool", name |-> tool.name,
                        registered |-> tool.name \in DOMAIN registry.tools,
                        raised |-> r.raised]
    /\ UNCHANGED <<orchVars, tmVars, toolVars, now, runtime, factory_cycle, groq>>

----------------------------------------------------------------------------
(* Agent Runtime (src/agents/base_agent.py, src/agents/dynamic_agent.py,   *)
(* src/agents/default_agents.py).                                          *)
(*                                                                         *)
(* One instance is modelled. execute runs to its return in one step: the   *)
(* calls of the Tool Executor it awaits are run to their return inside it. *)

\* The length the execution history is cut back to.
history_limit == 10

elements(s) == {s[i] : i \in DOMAIN s}

NoResult ==
    [success |-> FALSE, tools_used |-> <<>>, confidence_level |-> "none",
     error |-> "none"]

\* No instance has been constructed.
NoRuntime ==
    [kind |-> "none", status |-> "none", agent_id |-> None, preferred_tools |-> <<>>,
     execution_history |-> <<>>, executions |-> 0, tools_needed |-> <<>>,
     invoked |-> <<>>, result |-> NoResult, raised |-> FALSE]

\* BaseAgent.__init__ and the constructor of the subclass: status
\* "initialized", an empty history. executions counts the calls of execute;
\* tools_needed, invoked, result and raised describe the last call.
new_agent(kind, agent_id, preferred_tools) ==
    [NoRuntime EXCEPT !.kind = kind, !.status = "initialized", !.agent_id = agent_id,
                      !.preferred_tools = preferred_tools]

\* log_execution keeping the oldest records.
log_execution_oldest(history, timestamp, result) ==
    LET record == [timestamp |-> timestamp, success |-> result.success,
                   tools_used |-> result.tools_used,
                   confidence |-> result.confidence_level]
        h == Append(history, record)
    IN  IF Len(h) > history_limit THEN SubSeq(h, 1, history_limit) ELSE h

\* BaseAgent.log_execution: the record of the execution is appended, then
\* the history is cut back to its last ten records. The ordinal of the
\* execution stands for the timestamp.
log_execution(history, timestamp, result) ==
    LET record == [timestamp |-> timestamp, success |-> result.success,
                   tools_used |-> result.tools_used,
                   confidence |-> result.confidence_level]
        h == Append(history, record)
    IN  IF Len(h) > history_limit
           THEN SubSeq(h, Len(h) - history_limit + 1, Len(h))
           ELSE h

\* await tool_executor.execute_single_tool(agent_id, tool_name, parameters)
\* run to its return, the wait for a suspending capability included.
\* ex = [active, history, executions] is the executor's state.
run_single_tool(ex, agent_id, tool_name, inp) ==
    LET b == execute_single_tool_begin(ex.active, ex.history, ex.executions,
                                       agent_id, tool_name, inp)
        e == execute_single_tool_end(b.active, b.history, b.executions, b.call,
                                     inp.outcome, inp.update_ok)
        r == IF b.suspended THEN e ELSE b
    IN  [active |-> r.active, history |-> r.history, executions |-> r.executions,
         result |-> r.result]

\* One turn of the loop over tools_needed for a tool that passed the test:
\* the tool is handed to the Tool Executor and its result collected.
\* inps[i] are the environment's answers to the i-th call.
planned_tool(st, agent_id, tool_name, inps) ==
    LET r == run_single_tool(st, agent_id, tool_name, inps[Len(st.invoked) + 1])
    IN  [active |-> r.active, history |-> r.history, executions |-> r.executions,
         tool_results |-> Append(st.tool_results, r.result),
         invoked |-> Append(st.invoked, tool_name)]

\* The loop over tools_needed: a planned tool that is in allowed is handed
\* to the Tool Executor, any other is skipped. DynamicAgent.execute passes
\* its preferred tools, the factory-level cycle the names of the registry.
RECURSIVE execute_planned_tools(_, _, _, _, _)
execute_planned_tools(st, agent_id, allowed, tools_needed, inps) ==
    IF tools_needed = <<>> THEN st
    ELSE IF Head(tools_needed) \in allowed
       THEN execute_planned_tools(planned_tool(st, agent_id, Head(tools_needed), inps),
                                  agent_id, allowed, Tail(tools_needed), inps)
       ELSE execute_planned_tools(st, agent_id, allowed, Tail(tools_needed), inps)

\* The names of the tool results with success, in order.
tools_used(tool_results) ==
    LET ok == SelectSeq(tool_results, LAMBDA r : r.success)
    IN  [i \in DOMAIN ok |-> ok[i].tool_name]

\* DynamicAgent._validate_results, the score in tenths: the share of the
\* successful tool results times 4 (2 without tool results), 3, 2 or 1 for
\* the confidence, 2 for a reasoning text of more than 50 characters, 1 when
\* actions were planned; success from 6 on.
validate_results(reasoning_result, tool_results) ==
    LET successful_tools == SelectSeq(tool_results, LAMBDA r : r.success)
        total_tools == Len(tool_results)
        tool_score == IF total_tools > 0
                         THEN (4 * Len(successful_tools)) \div total_tools
                         ELSE 2
        confidence == reasoning_result.confidence_level
        confidence_score == IF confidence = "high" THEN 3
                            ELSE IF confidence = "medium" THEN 2 ELSE 1
        overall_score == tool_score + confidence_score
                         + (IF reasoning_result.reasoning = "long" THEN 2 ELSE 0)
                         + (IF reasoning_result.planned_actions > 0 THEN 1 ELSE 0)
    IN  overall_score >= 6

\* The failure result of the except block.
failure_agent_result(error) ==
    [success |-> FALSE, tools_used |-> <<>>, confidence_level |-> "low",
     error |-> error]

\* execute without the except block: the exception leaves execute, the
\* status stays "active" and nothing is logged.
execute_except_missing(rt, tools_needed, invoked, error) ==
    [rt EXCEPT !.executions = @ + 1, !.tools_needed = tools_needed,
               !.invoked = invoked, !.status = "active", !.result = NoResult,
               !.raised = TRUE]

\* The except block of execute: status "failed", the failure result is
\* logged and returned.
execute_except(rt, tools_needed, invoked, error) ==
    [rt EXCEPT !.executions = @ + 1, !.tools_needed = tools_needed,
               !.invoked = invoked, !.status = "failed",
               !.result = failure_agent_result(error),
               !.execution_history =
                    log_execution(@, rt.executions + 1, failure_agent_result(error)),
               !.raised = FALSE]

\* The end of the try block of execute: status "completed", the result is
\* logged and returned.
execute_return(rt, tools_needed, invoked, result) ==
    [rt EXCEPT !.executions = @ + 1, !.tools_needed = tools_needed,
               !.invoked = invoked, !.status = "completed", !.result = result,
               !.execution_history = log_execution(@, rt.executions + 1, result),
               !.raised = FALSE]

\* What groq_service.execute_agent_reasoning can hand to execute: it raises
\* (json.dumps of the context is outside its try), or it returns the parsed
\* reply, whose fields the model need not have typed as asked: tools_needed
\* null makes the loop raise, a reasoning that is a number makes the
\* validation raise. The last one is the fallback of the Reasoning Service.
ReasoningResults ==
    {[raised |-> FALSE, shape |-> "ok", tools_needed |-> <<"calculator">>,
      reasoning |-> "long", planned_actions |-> 1, confidence_level |-> "high"],
     [raised |-> FALSE, shape |-> "ok", tools_needed |-> <<"http_request", "calculator">>,
      reasoning |-> "long", planned_actions |-> 1, confidence_level |-> "medium"],
     [raised |-> FALSE, shape |-> "ok", tools_needed |-> <<"web_search">>,
      reasoning |-> "long", planned_actions |-> 1, confidence_level |-> "high"],
     [raised |-> TRUE, shape |-> "ok", tools_needed |-> <<>>,
      reasoning |-> "brief", planned_actions |-> 0, confidence_level |-> "low"],
     [raised |-> FALSE, shape |-> "tools_null", tools_needed |-> <<>>,
      reasoning |-> "long", planned_actions |-> 1, confidence_level |-> "high"],
     [raised |-> FALSE, shape |-> "reasoning_number", tools_needed |-> <<"calculator">>,
      reasoning |-> "brief", planned_actions |-> 1, confidence_level |-> "high"],
     [raised |-> FALSE, shape |-> "ok", tools_needed |-> <<>>,
      reasoning |-> "brief", planned_actions |-> 1, confidence_level |-> "low"]}

\* DynamicAgent.execute. ex is the executor's state, inps the environment's
\* answers to the calls of the Tool Executor.
DynamicAgent_execute(rt, ex, reasoning_result, inps) ==
    LET start == [active |-> ex.active, history |-> ex.history,
                  executions |-> ex.executions, tool_results |-> <<>>,
                  invoked |-> <<>>]
        tools_needed == reasoning_result.tools_needed
        st == execute_planned_tools(start, rt.agent_id, elements(rt.preferred_tools),
                                    tools_needed, inps)
        result == [success |-> validate_results(reasoning_result, st.tool_results),
                   tools_used |-> tools_used(st.tool_results),
                   confidence_level |-> reasoning_result.confidence_level,
                   error |-> "none"]
        out(r, x) == [runtime |-> r, active |-> x.active, history |-> x.history,
                      executions |-> x.executions]
    IN  IF reasoning_result.raised
           THEN out(execute_except(rt, <<>>, <<>>, "ReasoningError"), start)
        ELSE IF reasoning_result.shape = "tools_null"
           THEN out(execute_except(rt, <<>>, <<>>, "TypeError"), start)
        ELSE IF reasoning_result.shape = "reasoning_number"
           THEN out(execute_except(rt, tools_needed, st.invoked, "TypeError"), st)
           ELSE out(execute_return(rt, tools_needed, st.invoked, result), st)

\* SummarizerAgent.execute: the text_summarizer tool is always called; the
\* result of a failed call is None, reading the summary from it raises.
SummarizerAgent_execute(rt, ex, inp) ==
    LET r == run_single_tool(ex, rt.agent_id, "text_summarizer", inp)
        result == [success |-> TRUE, tools_used |-> <<"text_summarizer">>,
                   confidence_level |-> "high", error |-> "none"]
        x == [runtime |-> rt, active |-> r.active, history |-> r.history,
              executions |-> r.executions]
    IN  IF r.result.success
           THEN [x EXCEPT !.runtime = execute_return(rt, <<"text_summarizer">>,
                                                     <<"text_summarizer">>, result)]
           ELSE [x EXCEPT !.runtime = execute_except(rt, <<"text_summarizer">>,
                                                     <<"text_summarizer">>,
                                                     "AttributeError")]

\* The longest plan of ReasoningResults.
MaxPlan == 2

\* The answers of the environment to a call of the Tool Executor made by an
\* agent: everything works, the capability raises, the Task Store is down.
ToolRuns ==
    {[create_ok |-> TRUE,  params_ok |-> TRUE, outcome |-> "True",  update_ok |-> TRUE],
     [create_ok |-> TRUE,  params_ok |-> TRUE, outcome |-> "raise", update_ok |-> TRUE],
     [create_ok |-> FALSE, params_ok |-> TRUE, outcome |-> "True",  update_ok |-> TRUE]}

\* The preferred_tools of the agent definitions a DynamicAgent is built from.
PreferredTools == {<<"calculator">>, <<"calculator", "web_search">>}

\* DynamicAgent(agent_id, agent_definition).
DynamicAgent_init(preferred_tools) ==
    /\ runtime.kind = "none"
    /\ runtime' = new_agent("dynamic", 1, preferred_tools)
    /\ UNCHANGED <<orchVars, tmVars, toolVars, now, reply, factory_cycle, registry, groq>>

\* SummarizerAgent(agent_id).
SummarizerAgent_init ==
    /\ runtime.kind = "none"
    /\ runtime' = new_agent("summarizer", 1, <<"text_summarizer">>)
    /\ UNCHANGED <<orchVars, tmVars, toolVars, now, reply, factory_cycle, registry, groq>>

\* A call of execute(task_input, context) of the instance, run to its return.
agent_execute(reasoning_result, inps) ==
    /\ runtime.kind # "none"
    /\ \E r \in {IF runtime.kind = "dynamic"
                    THEN DynamicAgent_execute(runtime,
                            [active |-> active_executions, history |-> execution_history,
                             executions |-> agent_executions],
                            reasoning_result, inps)
                    ELSE SummarizerAgent_execute(runtime,
                            [active |-> active_executions, history |-> execution_history,
                             executions |-> agent_executions],
                            inps[1])} :
          /\ runtime' = r.runtime
          /\ active_executions' = r.active
          /\ execution_history' = r.history
          /\ agent_executions' = r.executions
          /\ reply' = [op |-> "execute", raised |-> r.runtime.raised,
                       result |-> r.runtime.result]
    /\ UNCHANGED <<orchVars, tmVars, now, calls, chain, par, factory_cycle, registry, groq>>

\* DynamicAgent.execute up to its first await that suspends, the request to
\* the Reasoning Service: the status is set to "active" whatever it was. The
\* instance is not in another call of execute.
DynamicAgent_execute_begin ==
    /\ runtime.kind = "dynamic"
    /\ runtime.status # "active"
    /\ runtime' = [runtime EXCEPT !.status = "active"]
    /\ UNCHANGED <<orchVars, tmVars, toolVars, now, reply, factory_cycle, registry, groq>>

\* DynamicAgent.execute from the answer of the Reasoning Service to its
\* return.
DynamicAgent_execute_resume(reasoning_result, inps) ==
    /\ runtime.kind = "dynamic"
    /\ runtime.status = "active"
    /\ agent_execute(reasoning_result, inps)

----------------------------------------------------------------------------
(* The factory-level cycle (src/core/agent_factory.py).                    *)

\* No cycle has run. cycles counts the cycles run; the other fields describe
\* the last one.
NoCycle ==
    [cycles |-> 0, agent_id |-> None, preferred_tools |-> <<>>, tools_needed |-> <<>>,
     invoked |-> <<>>, result |-> NoResult]

\* The entries of capability_tool_mapping for the capabilities of the model.
capability_tools(capability) ==
    IF capability = "calculation" THEN <<"calculator", "math_evaluator">>
    ELSE IF capability = "summarization" THEN <<"text_summarizer">>
    ELSE IF capability = "communication" THEN <<"email_sender">>
    ELSE <<>>

\* ToolRegistry.get_tools_for_capabilities: the tools recommended for the
\* capabilities, those of them that are registered.
RECURSIVE recommended_tools(_)
recommended_tools(capabilities) ==
    IF capabilities = <<>> THEN <<>>
    ELSE capability_tools(Head(capabilities)) \o recommended_tools(Tail(capabilities))

get_tools_for_capabilities(reg, capabilities) ==
    SelectSeq(recommended_tools(capabilities), LAMBDA t : t \in DOMAIN reg.tools)

\* The capabilities of the agent records.
Capabilities == {<<"calculation">>, <<"summarization", "communication">>}

\* execute_agent from the agent record on (lines 157-209) and its except
\* block: the preferred tools are computed and handed to the reasoning, every
\* planned tool whose name is in the registry is handed to the Tool
\* Executor, the result is compiled with success true. A raise of the
\* reasoning or of the loop over a malformed plan gives the failure result.
\* tbl is the agents table, ex the executor's state.
execute_agent_cycle(cycle, tbl, reg, ex, agent_id, capabilities, reasoning_result, inps) ==
    LET preferred_tools == get_tools_for_capabilities(reg, capabilities)
        start == [active |-> ex.active, history |-> ex.history,
                  executions |-> ex.executions, tool_results |-> <<>>,
                  invoked |-> <<>>]
        tools_needed == reasoning_result.tools_needed
        st == execute_planned_tools(start, agent_id, DOMAIN reg.tools, tools_needed,
                                    inps)
        agent_result == [success |-> TRUE, tools_used |-> tools_used(st.tool_results),
                         confidence_level |-> reasoning_result.confidence_level,
                         error |-> "none"]
        raised == reasoning_result.raised \/ reasoning_result.shape = "tools_null"
    IN  IF raised
           THEN [cycle |-> [cycles |-> cycle.cycles + 1, agent_id |-> agent_id,
                            preferred_tools |-> preferred_tools,
                            tools_needed |-> <<>>, invoked |-> <<>>,
                            result |-> failure_agent_result("Error")],
                 tbl |-> update_agent_status(tbl, agent_id, "failed"),
                 active |-> ex.active, history |-> ex.history,
                 executions |-> ex.executions]
           ELSE [cycle |-> [cycles |-> cycle.cycles + 1, agent_id |-> agent_id,
                            preferred_tools |-> preferred_tools,
                            tools_needed |-> tools_needed, invoked |-> st.invoked,
                            result |-> agent_result],
                 tbl |-> update_agent_status(tbl, agent_id, "completed"),
                 active |-> st.active, history |-> st.history,
                 executions |-> st.executions]

\* A run of the cycle for the record of agent_id.
execute_agent_cycle_call(agent_id, capabilities, reasoning_result, inps) ==
    /\ agent_id \in DOMAIN agents
    /\ \E r \in {execute_agent_cycle(factory_cycle, agents, registry,
                    [active |-> active_executions, history |-> execution_history,
                     executions |-> agent_executions],
                    agent_id, capabilities, reasoning_result, inps)} :
          /\ factory_cycle' = r.cycle
          /\ agents' = r.tbl
          /\ active_executions' = r.active
          /\ execution_history' = r.history
          /\ agent_executions' = r.executions
          /\ reply' = [op |-> "execute_agent", raised |-> FALSE,
                       result |-> r.cycle.result]
    /\ UNCHANGED <<tasks, active_tasks, pc, exec_frame, tmVars, now, calls, chain, par,
                   runtime, registry, groq>>

----------------------------------------------------------------------------
(* Reasoning Service (src/services/groq_service.py).                       *)

\* GroqService.max_retries.
max_retries == 3

\* The four calls of the service.
GroqOps ==
    {"analyze_task", "generate_dynamic_agent", "execute_agent_reasoning",
     "synthesize_results"}

\* What an attempt of the completion request can give: the text of a JSON
\* object, the text of another JSON value, a text that is no JSON, or an
\* exception (of the API, or of reading the content of the response).
GroqAnswers == {"object", "not_object", "garbage", "error"}

\* No call is in flight. attempt is the loop variable of
\* _make_completion_request, answers what the attempts of the call gave.
IdleGroq ==
    [pc |-> "idle", op |-> "none", attempt |-> 0, answers |-> <<>>,
     result |-> "none", raised |-> FALSE]

\* The except block of _make_completion_request sleeping after every attempt.
request_failed_retry(g) == [g EXCEPT !.pc = "sleep"]

\* The except block of _make_completion_request: before the last attempt it
\* sleeps 2 ** attempt seconds; at the last one it raises, and the except
\* block of the calling operation returns the fallback.
request_failed(g) ==
    IF g.attempt < max_retries - 1
       THEN [g EXCEPT !.pc = "sleep"]
       ELSE [g EXCEPT !.pc = "returned", !.result = "fallback"]

\* The attempt returned the content: json.loads and the .get of the log
\* line are inside the try of the calling operation, so a text that is no
\* JSON object gives the fallback, a JSON object is returned as parsed.
request_returned(g, answer) ==
    [g EXCEPT !.pc = "returned",
              !.result = IF answer = "object" THEN "parsed" ELSE "fallback"]

\* One of the four operations is called: the prompts are built and the
\* first attempt is about to be made. analyze_task is called by submit_task
\* for a task that waits for its analysis.
groq_call(op) ==
    /\ groq.pc \in {"idle", "returned"}
    /\ op = "analyze_task" => \E t \in DOMAIN pc : pc[t] = "analysis"
    /\ groq' = [IdleGroq EXCEPT !.pc = "request", !.op = op]
    /\ UNCHANGED <<orchVars, tmVars, toolVars, now, reply, runtime, factory_cycle,
                   registry>>

\* One attempt of the completion request, up to the return of the calling
\* operation or to the sleep before the next attempt.
groq_attempt(answer) ==
    /\ groq.pc = "request"
    /\ \E g \in {IF answer = "error"
                    THEN request_failed([groq EXCEPT !.answers = Append(@, answer)])
                    ELSE request_returned([groq EXCEPT !.answers = Append(@, answer)],
                                          answer)} :
          /\ groq' = g
          /\ reply' = IF g.pc = "returned"
                         THEN [op |-> g.op, raised |-> g.raised, result |-> g.result]
                         ELSE reply
    /\ UNCHANGED <<orchVars, tmVars, toolVars, now, runtime, factory_cycle, registry>>

\* The sleep between two attempts is over: the loop goes on.
groq_retry ==
    /\ groq.pc = "sleep"
    /\ groq' = [groq EXCEPT !.pc = "request", !.attempt = @ + 1]
    /\ UNCHANGED <<orchVars, tmVars, toolVars, now, reply, runtime, factory_cycle,
                   registry>>

\* The fallback analysis of analyze_task: one default agent, priority high.
FallbackAnalysis == <<DefaultSpec>>

\* submit_task from the return of analyze_task on, with the analysis the
\* service returned.
submit_task_analysed(task_id, parsed) ==
    /\ groq.pc = "returned"
    /\ groq.op = "analyze_task"
    /\ submit_task_plan(task_id, IF groq.result = "parsed" THEN parsed
                                 ELSE FallbackAnalysis)

----------------------------------------------------------------------------
(* Specifications.                                                         *)

Init ==
    /\ tasks = <<>>
    /\ agents = <<>>
    /\ active_tasks = EmptyMap
    /\ pc = <<>>
    /\ exec_frame = <<>>
    /\ task_workflows = EmptyMap
    /\ task_dependencies = EmptyMap
    /\ task_timeouts = EmptyMap
    /\ memory = <<>>
    /\ now = 0
    /\ reply = NoReply
    /\ active_executions = EmptyMap
    /\ execution_history = <<>>
    /\ agent_executions = <<>>
    /\ calls = EmptyMap
    /\ chain = IdleChain
    /\ par = IdlePar
    /\ runtime = NoRuntime
    /\ factory_cycle = NoCycle
    /\ registry = default_registry
    /\ groq = IdleGroq

\* The orchestrator: submit, the background flow of every task, cancel and
\* status, with pause and resume of the Task Workflow Manager.
Next ==
    \/ Len(tasks) < MaxTasks /\ submit_task_create("medium")
    \/ \E t \in TaskIds, a \in Analyses : submit_task_plan(t, a)
    \/ \E t \in TaskIds, created \in Creations : execute_task_start(t, created)
    \/ \E t \in TaskIds, recorded \in BOOLEAN : execute_task_store_error(t, recorded)
    \/ \E t \in TaskIds : execute_single_agent_begin(t)
    \/ \E t \in TaskIds, a \in DOMAIN agents, log_ok, agent_ok, recorded \in BOOLEAN :
          execute_single_agent_end(t, a, log_ok, agent_ok, recorded)
    \/ \E t \in TaskIds : execute_agents_gather(t)
    \/ \E t \in TaskIds : execute_agents_return(t)
    \/ \E t \in TaskIds, i \in 1..MaxAgents, log_ok, agent_ok \in BOOLEAN :
          gather_agent(t, i, log_ok, agent_ok)
    \/ \E t \in TaskIds : gather_done(t)
    \/ \E t \in TaskIds, ok \in BOOLEAN : execute_task_finish(t, ok)
    \/ \E t \in TaskIds : execute_task_evict(t)
    \/ \E t \in TaskIds : cancel_task(t)
    \/ \E t \in TaskIds : cancel_task_store_error(t)
    \/ \E t \in TaskIds : get_task_status(t)
    \/ \E t \in TaskIds : create_task_workflow(t, 1, <<>>)
    \/ \E t \in TaskIds : pause_task(t)
    \/ \E t \in TaskIds : resume_task(t)

Spec == Init /\ [][Next]_vars

\* The steps of one task's background flow, _execute_task and what it
\* awaits, with every creation of an agent returning.
Flow(t) ==
    \/ execute_task_start(t, AllCreated)
    \/ \E recorded \in BOOLEAN : execute_task_store_error(t, recorded)
    \/ execute_single_agent_begin(t)
    \/ \E a \in DOMAIN agents, log_ok, agent_ok, recorded \in BOOLEAN :
          execute_single_agent_end(t, a, log_ok, agent_ok, recorded)
    \/ execute_agents_gather(t)
    \/ execute_agents_return(t)
    \/ \E i \in 1..MaxAgents, log_ok, agent_ok \in BOOLEAN :
          gather_agent(t, i, log_ok, agent_ok)
    \/ gather_done(t)
    \/ \E ok \in BOOLEAN : execute_task_finish(t, ok)
    \/ execute_task_evict(t)

\* The event loop runs every scheduled flow: a flow that can take a step
\* eventually takes one (the awaited services answer or raise, the sleep
\* of the finally block ends).
SpecLive == Spec /\ \A t \in TaskIds : WF_vars(Flow(t))

\* The background flows alone, with cancellation.
NextAgents ==
    \/ Len(tasks) < MaxTasks /\ submit_task_create("medium")
    \/ \E t \in TaskIds, a \in Analyses : submit_task_plan(t, a)
    \/ \E t \in TaskIds : Flow(t)
    \/ \E t \in TaskIds : cancel_task(t)

SpecAgents == Init /\ [][NextAgents]_vars

\* One Agent Runtime instance: it is constructed, then execute is called
\* on it, with every reply of the Reasoning Service and every answer of the
\* environment to its tool calls.
MaxRuns == 2

NextRuntime ==
    \/ \E p \in PreferredTools : DynamicAgent_init(p)
    \/ SummarizerAgent_init
    \/ \E r \in ReasoningResults, inps \in [1..MaxPlan -> ToolRuns] :
          /\ runtime.executions < MaxRuns
          /\ agent_execute(r, inps)

SpecRuntime == Init /\ [][NextRuntime]_vars

\* One DynamicAgent whose execute is called again and again, each call seen
\* while it waits for the Reasoning Service.
NextStatus ==
    \/ \E p \in PreferredTools : DynamicAgent_init(p)
    \/ /\ runtime.executions < MaxRuns
       /\ DynamicAgent_execute_begin
    \/ \E r \in ReasoningResults, inps \in [1..MaxPlan -> ToolRuns] :
          DynamicAgent_execute_resume(r, inps)

SpecStatus == Init /\ [][NextStatus]_vars

\* The history of one DynamicAgent over more executions than it keeps:
\* executions that succeed, that are judged unsuccessful, and that fail.
MaxExecutions == 11

HistoryResults ==
    {r \in ReasoningResults :
        r.shape = "ok" /\ r.tools_needed \in {<<>>, <<"web_search">>}}

NextHistory ==
    \/ DynamicAgent_init(<<"calculator">>)
    \/ \E r \in HistoryResults :
          /\ runtime.executions < MaxExecutions
          /\ agent_execute(r, [i \in 1..MaxPlan |->
                                  [create_ok |-> TRUE, params_ok |-> TRUE,
                                   outcome |-> "True", update_ok |-> TRUE]])

SpecHistory == Init /\ [][NextHistory]_vars

\* The factory-level cycle for the agents of a task that has been started.
MaxCycles == 1

NextCycle ==
    \/ Len(tasks) < MaxTasks /\ submit_task_create("medium")
    \/ \E t \in TaskIds, a \in Analyses : submit_task_plan(t, a)
    \/ \E t \in TaskIds : execute_task_start(t, AllCreated)
    \/ \E a \in 1..MaxAgents, c \in Capabilities, r \in ReasoningResults,
          inps \in [1..MaxPlan -> ToolRuns] :
          /\ factory_cycle.cycles < MaxCycles
          /\ execute_agent_cycle_call(a, c, r, inps)

SpecCycle == Init /\ [][NextCycle]_vars

\* The Tool Registry after startup, with further registrations.
MaxRegistrations == 3

NextRegistry ==
    \E tool \in NewTools, category \in NewCategories :
        /\ listed(registry, Categories)
              < listed(default_registry, Categories) + MaxRegistrations
        /\ register_tool_call(tool, category)

SpecRegistry == Init /\ [][NextRegistry]_vars

\* The Reasoning Service under every answer of the API, and submit waiting
\* for its analysis. The event loop runs the call in flight: a pending
\* attempt is made and a sleep between two attempts ends.
NextGroq ==
    \/ Len(tasks) < MaxTasks /\ submit_task_create("medium")
    \/ \E op \in GroqOps : groq_call(op)
    \/ \E answer \in GroqAnswers : groq_attempt(answer)
    \/ groq_retry
    \/ \E t \in TaskIds, a \in Analyses : submit_task_analysed(t, a)

GroqStep == (\E answer \in GroqAnswers : groq_attempt(answer)) \/ groq_retry

SpecGroq == Init /\ [][NextGroq]_vars /\ WF_vars(GroqStep)

\* Pause and resume beside a task that runs to its end or is cancelled and
\* a workflow whose only step is recorded.
NextPause ==
    \/ Len(tasks) < MaxTasks /\ submit_task_create("medium")
    \/ \E t \in TaskIds : submit_task_plan(t, <<>>)
    \/ \E t \in TaskIds : execute_task_start(t, AllCreated)
    \/ \E t \in TaskIds : execute_agents_return(t)
    \/ \E t \in TaskIds, ok \in BOOLEAN : execute_task_finish(t, ok)
    \/ \E t \in TaskIds : cancel_task(t)
    \/ \E t \in TaskIds : execute_task_evict(t)
    \/ \E t \in TaskIds : create_task_workflow(t, 1, <<>>)
    \/ \E t \in TaskIds :
          /\ t \in DOMAIN task_workflows
          /\ task_workflows[t].step_results = <<>>
          /\ Len(memory) < MaxMemory
          /\ execute_workflow_step(t, 0, TRUE, TRUE)
    \/ \E t \in TaskIds : pause_task(t)
    \/ \E t \in TaskIds : resume_task(t)

SpecPause == Init /\ [][NextPause]_vars

\* The Task Workflow Manager's dependency check beside the orchestrator:
\* tasks run to completion (their analyses suggest no agent), may be
\* cancelled, and task 1 declares dependencies.
DepTaskIds == 1..MaxDepTasks

DepLists ==
    {<<>>} \cup {<<d>> : d \in DepTaskIds}
           \cup {<<p[1], p[2]>> : p \in {q \in DepTaskIds \X DepTaskIds : q[1] # q[2]}}

NextDeps ==
    \/ Len(tasks) < MaxDepTasks /\ submit_task_create("medium")
    \/ \E t \in DepTaskIds : submit_task_plan(t, <<>>)
    \/ \E t \in DepTaskIds : execute_task_start(t, AllCreated)
    \/ \E t \in DepTaskIds : execute_agents_return(t)
    \/ \E t \in DepTaskIds, ok \in BOOLEAN : execute_task_finish(t, ok)
    \/ \E t \in DepTaskIds : execute_task_evict(t)
    \/ \E t \in DepTaskIds : cancel_task(t)
    \/ \E deps \in DepLists : create_task_workflow(1, 1, deps)
    \/ check_dependencies(1)

SpecDeps == Init /\ [][NextDeps]_vars

\* The Task Workflow Manager alone: one task's workflow is created (and
\* re-created) and step results are recorded for it, with step indices in
\* and out of range, negative ones included.
WfTaskIds == {1}

StepIndexes == {-(MaxSteps + 1), -1} \cup (0..MaxSteps)

NextWf ==
    \/ \E t \in WfTaskIds, n \in 0..MaxSteps : create_task_workflow(t, n, <<>>)
    \/ \E t \in WfTaskIds, i \in StepIndexes, s \in BOOLEAN, m \in BOOLEAN :
          /\ t \in DOMAIN task_workflows =>
                Len(task_workflows[t].step_results) < MaxResults
          /\ Len(memory) < MaxMemory
          /\ execute_workflow_step(t, i, s, m)

SpecWf == Init /\ [][NextWf]_vars

\* The Task Workflow Manager with the progress report: the workflow of a
\* task, submitted or not, is created and re-created, step results are
\* recorded past its completion, and the progress is asked for.
MaxSummaries == 2

NextProgress ==
    \/ Len(tasks) < MaxTasks /\ submit_task_create("medium")
    \/ \E t \in WfTaskIds, n \in 0..MaxSteps : create_task_workflow(t, n, <<>>)
    \/ \E t \in WfTaskIds, i \in StepIndexes, s \in BOOLEAN, m \in BOOLEAN :
          /\ t \in DOMAIN task_workflows =>
                Len(task_workflows[t].step_results) < MaxResults
          /\ Len(memory) < MaxSummaries
          /\ execute_workflow_step(t, i, s, m)
    \/ \E t \in WfTaskIds : get_task_progress(t)

SpecProgress == Init /\ [][NextProgress]_vars

\* The Task Workflow Manager with the cleanup: the workflows of two tasks,
\* with and without dependencies, are created, completed and re-created
\* while hours pass, and completed workflows are purged.
MaxHours == 2

CleanupTaskIds == {1, 2}

NextCleanup ==
    \/ Len(tasks) < MaxTasks /\ submit_task_create("medium")
    \/ \E t \in CleanupTaskIds, d \in {<<>>, <<1>>} :
          /\ reply.op # "create_task_workflow"
          /\ create_task_workflow(t, 1, d)
    \/ \E t \in CleanupTaskIds :
          /\ t \in DOMAIN task_workflows
          /\ task_workflows[t].step_results = <<>>
          /\ Len(memory) < MaxSummaries
          /\ execute_workflow_step(t, 0, TRUE, TRUE)
    \/ now < 60 * MaxHours /\ clock_advance(60)
    \/ \E h \in {0, 1} : cleanup_completed_workflows(h)

SpecCleanup == Init /\ [][NextCleanup]_vars

\* The scheduling plan: tasks are submitted and stay pending while their
\* analysis is awaited; the first task may run to its end or be cancelled, and the second
\* one may declare a dependency on the first. A returned plan is taken by
\* its caller before the next task is submitted.
SchedPriorities == IF Len(tasks) = 0 THEN {"medium", "urgent"} ELSE {"medium"}

NextSched ==
    \/ /\ Len(tasks) < MaxSchedTasks
       /\ reply.op # "optimize_task_scheduling"
       /\ \E p \in SchedPriorities : submit_task_create(p)
    \/ submit_task_plan(1, <<>>)
    \/ execute_task_start(1, AllCreated)
    \/ execute_agents_return(1)
    \/ \E ok \in BOOLEAN : execute_task_finish(1, ok)
    \/ execute_task_evict(1)
    \/ cancel_task(1)
    \/ \E deps \in {<<>>, <<1>>} : create_task_workflow(2, 1, deps)
    \/ optimize_task_scheduling

SpecSched == Init /\ [][NextSched]_vars

\* The Tool Executor running one chain. The steps of the chains: a plain
\* and an error-tolerant request, steps conditioned on earlier results, on
\* a constant and on an unsafe text, a step with a required parameter
\* missing and a step naming an unregistered tool.
ChainSteps ==
    { [tool |-> "http_request", parameters_ok |-> TRUE, condition |-> <<>>,
       continue_on_error |-> FALSE, delay_seconds |-> 0],
      [tool |-> "http_request", parameters_ok |-> TRUE, condition |-> <<>>,
       continue_on_error |-> TRUE, delay_seconds |-> 1],
      [tool |-> "calculator", parameters_ok |-> TRUE,
       condition |-> <<"step_0_result">>,
       continue_on_error |-> FALSE, delay_seconds |-> 0],
      [tool |-> "calculator", parameters_ok |-> FALSE,
       condition |-> <<"http_request_result", "==", "True">>,
       continue_on_error |-> TRUE, delay_seconds |-> 0],
      [tool |-> "calculator", parameters_ok |-> TRUE,
       condition |-> <<"False", "or", "calculator_result">>,
       continue_on_error |-> FALSE, delay_seconds |-> 1],
      [tool |-> "http_request", parameters_ok |-> TRUE,
       condition |-> <<"step_1_result", "!=", "__class__">>,
       continue_on_error |-> FALSE, delay_seconds |-> 0],
      [tool |-> "missing", parameters_ok |-> TRUE, condition |-> <<>>,
       continue_on_error |-> FALSE, delay_seconds |-> 0] }

Workflows == UNION {[1..n -> ChainSteps] : n \in 0..MaxChain}

NextChain ==
    \/ \E workflow \in Workflows : execute_tool_workflow(1, workflow)
    \/ \E inp \in Inputs : execute_tool_workflow_step(inp)
    \/ \E outcome \in ToolOutcomes, update_ok \in BOOLEAN :
          execute_tool_workflow_resume(outcome, update_ok)
    \/ execute_tool_workflow_delay

SpecChain == Init /\ [][NextChain]_vars

\* The Tool Executor running one parallel batch of one agent, with a clock
\* that may or may not have moved on between two reads.
ToolSpecs == [tool : {"http_request", "calculator", "missing"}, parameters_ok : BOOLEAN]

Batches == UNION {[1..k -> ToolSpecs] : k \in 0..MaxPar}

\* A batch never reads the value a capability returns: one value stands
\* for all of them.
BatchOutcomes == {"True", "raise"}

BatchInputs == {inp \in Inputs : inp.outcome \in BatchOutcomes}

NextPar ==
    \/ \E tool_specs \in Batches : execute_parallel_tools(1, tool_specs)
    \/ \E i \in 1..MaxPar, inp \in BatchInputs : parallel_task_start(i, inp)
    \/ \E i \in 1..MaxPar, outcome \in BatchOutcomes, update_ok \in BOOLEAN :
          parallel_task_return(i, outcome, update_ok)
    \/ parallel_gather
    \/ now < MaxClock /\ tick

SpecPar == Init /\ [][NextPar]_vars

----------------------------------------------------------------------------
(* Task status transitions.                                                *)

LegalTransitions ==
    { <<"pending", "in_progress">>,
      <<"in_progress", "completed">>, <<"in_progress", "failed">>,
      <<"in_progress", "cancelled">>,
      <<"in_progress", "paused">>, <<"paused", "in_progress">> }

\* C1: in every step, the status of every task, in the Task Store and in the
\* in-memory plan, stays as it is or changes along pending -> in_progress ->
\* completed | failed | cancelled or in_progress <-> paused.
C1_StatusTransitions ==
    [][\A t \in TaskIds :
          /\ (t \in DOMAIN tasks /\ tasks'[t].status # tasks[t].status)
                => <<tasks[t].status, tasks'[t].status>> \in LegalTransitions
          /\ (/\ t \in DOMAIN active_tasks
              /\ t \in DOMAIN active_tasks'
              /\ active_tasks'[t].status # active_tasks[t].status)
                => <<active_tasks[t].status, active_tasks'[t].status>>
                       \in LegalTransitions]_vars

\* The background flow of a task is running: _execute_task has started and
\* has not reached its finally block.
Running(t) == t \in DOMAIN pc /\ pc[t] \in {"agents", "gather", "synthesis"}

\* C2: once get_task_status reports cancelled for a task whose background
\* flow is still running, it reports cancelled after every later step.
C2_CancelledStays ==
    [][\A t \in TaskIds :
          (Running(t) /\ task_status_view(t) = "cancelled")
              => task_status_view(t)' = "cancelled"]_vars

----------------------------------------------------------------------------
(* Dependencies.                                                           *)

NotCompleted(d) == d \notin DOMAIN tasks \/ tasks[d].status # "completed"

\* C7: for every task whose workflow declares dependencies, the dependency
\* check returns as pending exactly the declared ids whose task is missing
\* from the store or not completed, in declaration order, and satisfied
\* exactly when there is none.
C7_CheckDependencies ==
    \A a \in DOMAIN task_workflows :
        LET declared == task_workflows[a].dependencies
            r        == check_task_dependencies(a)
        IN  declared # <<>> =>
              /\ r.pending_dependencies = SelectSeq(declared, NotCompleted)
              /\ r.satisfied = (\A i \in DOMAIN declared : ~NotCompleted(declared[i]))

\* Task 1 depends on task 2, task 2 is completed, and the check of task 1
\* has just answered satisfied.
C7_Witness ==
    /\ 1 \in DOMAIN task_workflows
    /\ task_workflows[1].dependencies = <<2>>
    /\ 2 \in DOMAIN tasks
    /\ tasks[2].status = "completed"
    /\ reply.op = "check_task_dependencies"
    /\ reply.value = check_task_dependencies(1)
    /\ reply.value.satisfied

----------------------------------------------------------------------------
(* Workflow steps.                                                         *)

StepIndexesOf(workflow) ==
    [k \in DOMAIN workflow.step_results |-> workflow.step_results[k].step_index]

\* C3: a workflow with N > 0 steps whose recorded step results are those of
\* the indices 0, 1, .., N-1 in this order is completed and its current_step
\* is N, whatever the success flags.
C3_AllStepsCompleted ==
    \A t \in DOMAIN task_workflows :
        LET w == task_workflows[t]
        IN  (w.steps > 0 /\ StepIndexesOf(w) = [k \in 1..w.steps |-> k - 1])
               => (w.status = "completed" /\ w.current_step = w.steps)

\* Both steps of a two-step workflow were recorded in order, the first with
\* success = False, and the workflow is completed.
C3_Witness ==
    /\ 1 \in DOMAIN task_workflows
    /\ task_workflows[1].steps = 2
    /\ StepIndexesOf(task_workflows[1]) = <<0, 1>>
    /\ ~task_workflows[1].step_results[1].success
    /\ task_workflows[1].status = "completed"
    /\ reply.op = "execute_workflow_step"
    /\ reply.step_index = 1

\* C4: a call of execute_workflow_step for a task without workflow, or with
\* a step index >= len(steps), raises and leaves the workflows, the timeout
\* table, the dependency table and the Memory Service as they were.
C4_RejectedStepChangesNothing ==
    [][\A t \in WfTaskIds, i \in StepIndexes, s \in BOOLEAN, m \in BOOLEAN :
          (/\ execute_workflow_step(t, i, s, m)
           /\ \/ t \notin DOMAIN task_workflows
              \/ i >= task_workflows[t].steps)
          => (/\ reply'.raised # "no"
              /\ UNCHANGED <<task_workflows, task_timeouts, task_dependencies, memory>>)
      ]_vars

\* A call with step index len(steps) on an existing workflow that already
\* holds a step result has just raised.
C4_Witness ==
    /\ reply.op = "execute_workflow_step"
    /\ reply.raised = "ValueError"
    /\ reply.task_id \in DOMAIN task_workflows
    /\ reply.step_index = task_workflows[reply.task_id].steps
    /\ Len(task_workflows[reply.task_id].step_results) = 1

----------------------------------------------------------------------------
(* The scheduling plan.                                                    *)

BucketIds(bucket) == {bucket[i].task_id : i \in DOMAIN bucket}

\* How many entries of the three buckets of a plan name the task.
Placements(plan, t) ==
    Cardinality({i \in DOMAIN plan.immediate_execution :
                    plan.immediate_execution[i].task_id = t})
    + Cardinality({i \in DOMAIN plan.resource_limited :
                    plan.resource_limited[i].task_id = t})
    + Cardinality({i \in DOMAIN plan.dependency_waiting :
                    plan.dependency_waiting[i].task_id = t})

\* The task declares a dependency whose task is missing or not completed.
HasUnsatisfiedDependency(t) ==
    /\ t \in DOMAIN task_dependencies
    /\ \E i \in DOMAIN task_dependencies[t] : NotCompleted(task_dependencies[t][i])

\* C8: the plan returned by optimize_task_scheduling holds every pending
\* task in exactly one of its three buckets and no other task in any; a
\* task with an unsatisfied dependency is in dependency_waiting;
\* immediate_execution has at most max_concurrent_tasks entries;
\* resource_limited is non-empty only when immediate_execution is full; and
\* with pending task 2 depending on pending task 1, task 2 is in
\* dependency_waiting and task 1 in immediate_execution.
C8_SchedulePartition ==
    [][optimize_task_scheduling =>
        LET plan == reply'.value
        IN  /\ \A t \in DOMAIN tasks :
                  Placements(plan, t) = IF tasks[t].status = "pending" THEN 1 ELSE 0
            /\ \A t \in DOMAIN tasks :
                  (tasks[t].status = "pending" /\ HasUnsatisfiedDependency(t))
                     => t \in BucketIds(plan.dependency_waiting)
            /\ Len(plan.immediate_execution) <= max_concurrent_tasks
            /\ plan.resource_limited # <<>>
                  => Len(plan.immediate_execution) = max_concurrent_tasks
            /\ (/\ 2 \in DOMAIN tasks
                /\ tasks[1].status = "pending"
                /\ tasks[2].status = "pending"
                /\ 2 \in DOMAIN task_dependencies
                /\ task_dependencies[2] = <<1>>)
                  => /\ 2 \in BucketIds(plan.dependency_waiting)
                     /\ 1 \in BucketIds(plan.immediate_execution)]_vars

\* C9: in the plan returned by optimize_task_scheduling, every task of
\* immediate_execution was created before every task of resource_limited.
C9_EarliestAdmitted ==
    [][optimize_task_scheduling =>
        LET plan == reply'.value
        IN  \A a \in BucketIds(plan.immediate_execution),
               b \in BucketIds(plan.resource_limited) :
                  tasks[a].created_at < tasks[b].created_at]_vars

----------------------------------------------------------------------------
(* Tool chains.                                                            *)

\* Entry i of the chain's result list is a step that ran, failed and does
\* not set continue_on_error.
Halting(i) ==
    LET entry == chain.results[i]
    IN  /\ "skipped" \notin DOMAIN entry
        /\ ~entry.success
        /\ ~chain.workflow[i].continue_on_error

\* C5: as soon as a step of a chain has run, failed and does not set
\* continue_on_error, the chain has returned; the returned list has one
\* entry per step up to that one (skipped steps included) and none after
\* it, and execute_single_tool was called for no later step.
C5_ChainHaltsAtFirstFailure ==
    \A i \in DOMAIN chain.results :
        Halting(i) =>
            /\ chain.pc = "returned"
            /\ reply = [op |-> "execute_tool_workflow", value |-> chain.results]
            /\ Len(chain.results) = i
            /\ \A j \in DOMAIN chain.results : chain.results[j].step = j - 1
            /\ \A k \in DOMAIN chain.invoked : chain.invoked[k] <= i - 1

\* A chain of three steps whose second step ran and failed has returned
\* two entries.
C5_Witness ==
    /\ chain.pc = "returned"
    /\ Len(chain.workflow) = 3
    /\ Len(chain.results) = 2
    /\ "skipped" \notin DOMAIN chain.results[1]
    /\ Halting(2)

ResolvedText(e) == resolve_condition(e.condition, e.context)

EvaluationFails(e) == is_unsafe(ResolvedText(e)) \/ py_eval(ResolvedText(e)).raised

\* C11: no evaluation of a condition raises out of the chain; a condition
\* whose text is unsafe after the substitution, malformed or failing in eval
\* counts as false: its step has a skipped entry at its position and the
\* chain has gone on to the next step.
C11_ConditionNeverRaises ==
    /\ chain.pc # "raised"
    /\ \A a \in DOMAIN chain.evaluations :
          LET e == chain.evaluations[a]
          IN  EvaluationFails(e) =>
                 /\ e.skipped
                 /\ Len(chain.results) > e.step
                 /\ "skipped" \in DOMAIN chain.results[e.step + 1]
                 /\ chain.results[e.step + 1].step = e.step
                 /\ e.step + 1 < Len(chain.workflow) => chain.step_index > e.step

\* A chain ran to its end after one condition became unsafe only through
\* the substitution of a result and another one failed in eval.
C11_Witness ==
    /\ chain.pc = "returned"
    /\ Len(chain.results) = Len(chain.workflow)
    /\ \E a, b \in DOMAIN chain.evaluations :
          /\ is_unsafe(ResolvedText(chain.evaluations[a]))
          /\ ~is_unsafe(chain.evaluations[a].condition)
          /\ ~is_unsafe(ResolvedText(chain.evaluations[b]))
          /\ py_eval(ResolvedText(chain.evaluations[b])).raised

----------------------------------------------------------------------------
(* Parallel batches.                                                       *)

\* What execute_single_tool returns for spec i of the batch when it runs
\* alone, given what the Task Store and the capability answered to it.
OwnOutcome(i) ==
    LET tool_name == par.tool_specs[i].tool
        answer    == par.answers[i]
        b == execute_single_tool_begin(EmptyMap, <<>>, <<>>, par.agent_id,
                                       tool_name, answer)
    IN  IF b.suspended
           THEN execute_single_tool_end(b.active, b.history, b.executions, b.call,
                                        answer.outcome, answer.update_ok).result
           ELSE b.result

\* C6: the list returned by execute_parallel_tools has one entry per spec;
\* entry i carries parallel_index i and is the outcome of spec i alone: a
\* failed entry with the error when its capability raised, whatever the
\* other specs did.
C6_ParallelOutcomes ==
    par.pc = "returned" =>
        /\ Len(par.processed_results) = Len(par.tool_specs)
        /\ \A i \in DOMAIN par.processed_results :
              LET entry == par.processed_results[i]
                  own   == OwnOutcome(i)
              IN  /\ entry.parallel_index = i - 1
                  /\ entry.success = own.success
                  /\ entry.tool_name = own.tool_name
                  /\ entry.result = own.result
                  /\ entry.error = own.error

----------------------------------------------------------------------------
(* Execution records.                                                      *)

\* The execute_single_tool call of task i of the batch returns in this step.
Returns(i) ==
    /\ par.pc = "gather"
    /\ i \in DOMAIN par.tasks
    /\ par.tasks[i].state # "done"
    /\ par'.tasks[i].state = "done"

\* The execution id of the call of task i: the one it built when it started,
\* or the one it builds in this step.
ExecutionIdOf(i) ==
    IF i \in DOMAIN calls
       THEN calls[i].execution_record.execution_id
       ELSE <<par.agent_id, par.tool_specs[i].tool, now>>

\* C12: when an execute_single_tool call returns, on any path, its execution
\* id is not in active_executions and a finished record with that id is in
\* execution_history; and whenever no call is in flight active_executions is
\* empty.
C12_ReturnedLeavesActiveSet ==
    /\ [](calls = EmptyMap => active_executions = EmptyMap)
    /\ [][\A i \in 1..MaxPar :
            Returns(i) =>
               /\ ExecutionIdOf(i) \notin DOMAIN active_executions'
               /\ \E h \in DOMAIN execution_history' :
                     /\ execution_history'[h].execution_id = ExecutionIdOf(i)
                     /\ execution_history'[h].status
                           \in {"completed", "failed", "error"}]_vars

\* A batch has returned whose calls ended on different paths: a tool that
\* was not found and a tool that reported a failure or succeeded.
C12_Witness ==
    /\ par.pc = "returned"
    /\ calls = EmptyMap
    /\ \E a, b \in DOMAIN execution_history :
          /\ execution_history[a].status = "error"
          /\ execution_history[a].tool_name = "missing"
          /\ execution_history[b].status \in {"completed", "failed"}

----------------------------------------------------------------------------
(* Pause and resume.                                                       *)

WorkflowStatusIs(t, status) ==
    t \in DOMAIN task_workflows /\ task_workflows[t].status = status

----------------------------------------------------------------------------
(* Cancellation of finished tasks.                                         *)

StoredTerminal(t) == task_exists(t) /\ tasks[t].status \in {"completed", "failed"}

\* C14: cancel_task for an unknown task, or for a task whose stored status
\* is already completed or failed, reports the error and changes no task
\* status and no agent status, also when the finished task's plan has not
\* been evicted yet.
C14_CancelFinishedIsNotFound ==
    [][\A t \in TaskIds :
          (cancel_task(t) /\ (~task_exists(t) \/ StoredTerminal(t))) =>
              /\ reply'.status = "error"
              /\ UNCHANGED <<tasks, agents>>]_vars

----------------------------------------------------------------------------
(* The end of a task's execution.                                          *)

TerminalStatuses == {"completed", "failed", "cancelled"}

TerminalInPlanAndStore(t) ==
    /\ t \in DOMAIN active_tasks
    /\ active_tasks[t].status \in TerminalStatuses
    /\ task_exists(t)
    /\ tasks[t].status \in TerminalStatuses

\* C15: every task for which submit_task returned eventually has a terminal
\* status (completed, failed or cancelled) in its plan and in the Task
\* Store, also when a Task Store call fails during the execution or while
\* the failure is recorded.
C15_EventuallyTerminal ==
    \A t \in TaskIds :
        (t \in DOMAIN pc /\ pc[t] = "scheduled") ~> TerminalInPlanAndStore(t)

----------------------------------------------------------------------------
(* The results of _execute_agents.                                         *)

\* The order the claim gives: the high-priority agents in creation order,
\* then the others in creation order.
ExpectedOrder(agent_list) ==
    high_priority_agents(agent_list) \o other_agents(agent_list)

\* _execute_agents of task t is over: the flow is past it.
AgentsOver(t) == t \in DOMAIN pc /\ pc[t] \in {"synthesis", "sleep"}

\* C16: whatever agents fail or raise, when _execute_agents is over the
\* plan holds exactly one result per agent, the high-priority agents first
\* in creation order and then the others in creation order, and the entry
\* of an agent whose execution did not succeed says success = false.
C16_OneResultPerAgent ==
    \A t \in DOMAIN active_tasks :
        AgentsOver(t) =>
            LET plan   == active_tasks[t]
                want   == ExpectedOrder(plan.agents)
                seen   == exec_frame[t].factory
            IN  /\ Len(plan.results) = Len(want)
                /\ \A k \in DOMAIN want :
                      /\ plan.results[k].agent_id \in {want[k].id, None}
                      /\ plan.results[k].success =>
                            /\ want[k].id \in DOMAIN seen
                            /\ seen[want[k].id].success

----------------------------------------------------------------------------
(* The order of the agent executions.                                      *)

IdsOf(agent_list) == {agent_list[k].id : k \in DOMAIN agent_list}

\* C17: within one task's execution no agent that is not high-priority is
\* executing before every high-priority agent has returned, and no two
\* high-priority agents execute at overlapping times: a high-priority agent
\* that is executing is the next one in list order after those that have
\* returned.
C17_HighPriorityFirst ==
    \A t \in DOMAIN active_tasks :
        LET plan    == active_tasks[t]
            frame   == exec_frame[t]
            high    == high_priority_agents(plan.agents)
            highIds == IdsOf(high)
            done    == Len(frame.agent_results)
        IN  /\ frame.running \subseteq IdsOf(plan.agents)
            /\ Cardinality(frame.running \cap highIds) <= 1
            /\ \A a \in frame.running \cap highIds :
                  /\ done < Len(high)
                  /\ a = high[done + 1].id
                  /\ \A k \in 1..done : frame.agent_results[k].agent_id = high[k].id
            /\ \A a \in frame.running \ highIds :
                  /\ frame.running \cap highIds = {}
                  /\ done >= Len(high)
                  /\ \A k \in DOMAIN high : frame.agent_results[k].agent_id = high[k].id

\* An agent that is not high-priority is executing in a task that has two
\* high-priority agents, both of which have returned.
C17_Witness ==
    \E t \in DOMAIN active_tasks :
        LET plan  == active_tasks[t]
            high  == high_priority_agents(plan.agents)
        IN  /\ Len(high) = 2
            /\ exec_frame[t].running # {}
            /\ exec_frame[t].running \cap IdsOf(high) = {}
            /\ Len(exec_frame[t].agent_results) = 2

----------------------------------------------------------------------------
(* Eviction of the plan and the status query.                              *)

PlanTerminal(t) ==
    t \in DOMAIN active_tasks /\ active_tasks[t].status \in TerminalStatuses

\* C18: a task's plan is never evicted before its execution flow has ended
\* in a terminal status, and it is eventually evicted afterwards;
\* get_task_status answers from the plan whenever there is one, from the
\* Task Store when the plan is gone and the task is stored, and with the
\* not-found error when neither exists.
C18_EvictionAfterTerminal ==
    /\ [][\A t \in TaskIds :
            (execute_task_evict(t) /\ t \in DOMAIN active_tasks) => PlanTerminal(t)]_vars
    /\ \A t \in TaskIds :
            (PlanTerminal(t) /\ pc[t] = "sleep") ~> (t \notin DOMAIN active_tasks)
    /\ [][\A t \in TaskIds :
            get_task_status(t) =>
                reply'.status =
                    IF t \in DOMAIN active_tasks THEN active_tasks[t].status
                    ELSE IF t \in DOMAIN tasks THEN tasks[t].status
                    ELSE "error"]_vars

----------------------------------------------------------------------------
(* The agent factory's execute_agent.                                      *)

\* The execute_agent calls made so far: task and agent id.
FactoryCalls ==
    {c \in (DOMAIN exec_frame) \X (DOMAIN agents) : c[2] \in DOMAIN exec_frame[c[1]].factory}

OutcomeOf(c) == exec_frame[c[1]].factory[c[2]]

\* C19: execute_agent always hands a result to its caller and never raises:
\* on any internal error (the agent record is not found, the reasoning or a
\* tool fails, a Task Store call fails) it returns success = false and the
\* agent is marked failed.
C19_ExecuteAgentNeverRaises ==
    \A c \in FactoryCalls :
        /\ ~OutcomeOf(c).raised
        /\ ~OutcomeOf(c).success => agents[c[2]].status = "failed"

\* C20: for an agent record created by create_default_agent or
\* create_dynamic_agent for a task, execute_agent finds the record by its
\* id, and when nothing fails marks it completed and returns success = true.
C20_ExecuteAgentFindsRecord ==
    \A c \in FactoryCalls :
        OutcomeOf(c).answered =>
            /\ OutcomeOf(c).found
            /\ OutcomeOf(c).success
            /\ agents[c[2]].status = "completed"

\* C21: execute(input, context) of an Agent Runtime never lets an exception
\* reach its caller: after every call the status is completed or failed, a
\* failed status comes with the failure result (no success, no tools used,
\* low confidence, an error text), and a call in which the reasoning, the
\* loop over the plan or the validation raises ends failed.
C21_ExecuteNeverRaises ==
    /\ [](runtime.executions > 0 =>
            /\ ~runtime.raised
            /\ runtime.status \in {"completed", "failed"}
            /\ runtime.status = "failed" =>
                  /\ runtime.result.success = FALSE
                  /\ runtime.result.tools_used = <<>>
                  /\ runtime.result.confidence_level = "low"
                  /\ runtime.result.error # "none")
    /\ [][\A r \in ReasoningResults, inps \in [1..MaxPlan -> ToolRuns] :
             (/\ runtime.kind = "dynamic"
              /\ r.raised \/ r.shape # "ok"
              /\ agent_execute(r, inps))
             => /\ runtime'.status = "failed"
                /\ reply' = [op |-> "execute", raised |-> FALSE,
                             result |-> runtime'.result]]_vars

\* An execution that raised after a tool had been invoked, and returned.
C21_Witness ==
    /\ runtime.status = "failed"
    /\ runtime.invoked # <<>>
    /\ reply.op = "execute"
    /\ ~reply.raised

\* C22: after n executions of one Agent Runtime instance, successful or not,
\* its execution history holds min(n, 10) records, and they are the last
\* min(n, 10) executions in the order they happened.
C22_HistoryKeepsLastTen ==
    LET n == runtime.executions
        h == runtime.execution_history
        kept == IF n < 10 THEN n ELSE 10
    IN  /\ Len(h) = kept
        /\ \A i \in DOMAIN h : h[i].timestamp = n - kept + i

\* More than ten executions, successful and failed ones among those kept.
C22_Witness ==
    /\ runtime.executions > 10
    /\ \E i \in DOMAIN runtime.execution_history :
          runtime.execution_history[i].success
    /\ \E i \in DOMAIN runtime.execution_history :
          ~runtime.execution_history[i].success

\* The tools the last execution of the Agent Runtime handed to the Tool
\* Executor were planned and preferred.
RuntimeInvokedPlannedPreferred ==
    \A i \in DOMAIN runtime.invoked :
        /\ runtime.invoked[i] \in elements(runtime.tools_needed)
        /\ runtime.invoked[i] \in elements(runtime.preferred_tools)

C24_DuplicateNameRejected ==
    [][\A tool \in NewTools, category \in NewCategories :
          (/\ tool.name \in DOMAIN registry.tools
           /\ register_tool_call(tool, category))
          => /\ reply'.raised
             /\ registry' = registry]_vars

\* C25: a call of the Reasoning Service makes at most max_retries = 3
\* attempts and returns: every attempt before the last one made has failed,
\* the parsed reply is returned when the last attempt made gave a JSON
\* object, the fallback when it gave an unparsable text or when the third
\* attempt failed too; nothing is raised, a call that was started returns,
\* and submit, which waits for the analysis, answers "submitted".
C25_ReasoningBoundedWithFallback ==
    /\ [](LET n == Len(groq.answers)
          IN  /\ n <= 3
              /\ \A i \in 1..(n - 1) : groq.answers[i] = "error"
              /\ groq.pc = "returned" =>
                    /\ n >= 1
                    /\ ~groq.raised
                    /\ groq.answers[n] = "object" => groq.result = "parsed"
                    /\ groq.answers[n] # "object" => groq.result = "fallback"
                    /\ groq.answers[n] = "error" => n = 3)
    /\ [](reply.op = "submit_task" => reply.status = "submitted")
    /\ (groq.pc = "request") ~> (groq.pc = "returned")

\* The first two attempts failed and the third one gave the reply.
C25_Witness ==
    /\ groq.pc = "returned"
    /\ groq.answers = <<"error", "error", "object">>
    /\ groq.result = "parsed"

\* C26: a cancel that succeeds cancels every agent of the task that was
\* active; from then on (the plan says cancelled) no agent of the task is
\* created or set to active, completed or failed, and the status of a
\* cancelled agent is never overwritten.
C26_CancelStopsAgents ==
    [][/\ \A t \in TaskIds :
             (cancel_task(t) /\ reply'.status = "cancelled")
             => \A a \in get_task_agents(agents, t) :
                   agents[a].status = "active" => agents'[a].status = "cancelled"
       /\ \A t \in DOMAIN active_tasks :
             active_tasks[t].status = "cancelled"
             => \A a \in get_task_agents(agents', t) :
                   (a \notin DOMAIN agents \/ agents'[a].status # agents[a].status)
                   => agents'[a].status \notin {"active", "completed", "failed"}
       /\ \A a \in DOMAIN agents :
             agents[a].status = "cancelled" => agents'[a].status = "cancelled"]_vars

\* C27: with every call of execute_workflow_step that succeeds, current_step
\* grows, equals the number of step results recorded, and lies within
\* 0..len(steps).
C27_CurrentStepCountsResults ==
    [][\A t \in WfTaskIds, i \in StepIndexes, s \in BOOLEAN, m \in BOOLEAN :
          (/\ execute_workflow_step(t, i, s, m)
           /\ reply'.raised = "no")
          => /\ task_workflows'[t].current_step > task_workflows[t].current_step
             /\ task_workflows'[t].current_step = Len(task_workflows'[t].step_results)
             /\ task_workflows'[t].current_step \in 0..task_workflows'[t].steps]_vars

\* C28: a completed workflow is final: a later call of execute_workflow_step
\* leaves its step results, current_step, status and completed_at as they
\* were and hands no further summary to the Memory Service.
C28_CompletedIsFinal ==
    [][\A t \in WfTaskIds, i \in StepIndexes, s \in BOOLEAN, m \in BOOLEAN :
          (/\ t \in DOMAIN task_workflows
           /\ task_workflows[t].status = "completed"
           /\ execute_workflow_step(t, i, s, m))
          => /\ task_workflows'[t] = task_workflows[t]
             /\ memory' = memory]_vars

\* C29: get_task_progress reports the step results with and without success
\* as completed_steps and failed_steps and completed_steps / total_steps as
\* the percentage; completed_steps never exceeds total_steps, the percentage
\* stays within 0..100, and estimated_completion is None while no step
\* result has success.
C29_ProgressWithinBounds ==
    (reply.op = "get_task_progress" /\ reply.task_id \in DOMAIN task_workflows)
    => LET p == reply.progress
           w == task_workflows[reply.task_id]
       IN  /\ p.completed_steps =
                 Cardinality({k \in DOMAIN w.step_results : w.step_results[k].success})
           /\ p.failed_steps =
                 Cardinality({k \in DOMAIN w.step_results : ~w.step_results[k].success})
           /\ p.total_steps > 0 =>
                 p.progress_percentage.num * p.total_steps
                    = p.completed_steps * 100 * p.progress_percentage.den
           /\ p.completed_steps <= p.total_steps
           /\ p.progress_percentage.num >= 0
           /\ p.progress_percentage.num <= 100 * p.progress_percentage.den
           /\ p.completed_steps = 0 => p.estimated_completion = NoTime

\* C30: in every state, the workflow of a stored task has the status of the
\* task.
C30_WorkflowStatusFollowsTask ==
    \A t \in DOMAIN task_workflows :
        task_exists(t) => task_workflows[t].status = tasks[t].status

----------------------------------------------------------------------------
(* Skipped steps of a chain.                                               *)

\* The condition of the step the loop is at is given and does not evaluate
\* to a true value against the context: eval gives False or None, the text
\* is unsafe, or eval raises.
ConditionFalse ==
    /\ chain.pc = "loop"
    /\ LET step == chain.workflow[chain.step_index + 1]
           text == resolve_condition(step.condition, chain.workflow_context)
       IN  /\ step.condition # <<>>
           /\ \/ is_unsafe(text)
              \/ py_eval(text).raised
              \/ py_eval(text).value # "True"

\* C31: an iteration of the chain's loop at a step whose condition is false
\* calls execute_single_tool for nothing (the active set, the history and
\* the stored execution rows stay as they are), appends exactly one entry
\* marked skipped, with the step's index and at the step's position, leaves
\* the context as it is, and goes on to the next step (or returns after the
\* last one).
C31_FalseConditionSkipsStep ==
    [][ (ConditionFalse /\ chain' # chain) =>
           /\ active_executions' = active_executions
           /\ execution_history' = execution_history
           /\ agent_executions' = agent_executions
           /\ calls' = calls
           /\ chain'.invoked = chain.invoked
           /\ chain'.results = Append(chain.results,
                  [step |-> chain.step_index,
                   tool |-> chain.workflow[chain.step_index + 1].tool,
                   skipped |-> TRUE, reason |-> "condition_not_met"])
           /\ Len(chain'.results) = chain.step_index + 1
           /\ chain'.workflow_context = chain.workflow_context
           /\ IF chain.step_index + 1 < Len(chain.workflow)
                 THEN chain'.pc = "loop" /\ chain'.step_index = chain.step_index + 1
                 ELSE chain'.pc = "returned"
      ]_vars

\* A chain whose second step was skipped, after a first step that ran and
\* filled the context, ran its third step.
C31_Witness ==
    /\ Len(chain.results) = 3
    /\ "skipped" \notin DOMAIN chain.results[1]
    /\ "skipped" \in DOMAIN chain.results[2]
    /\ "skipped" \notin DOMAIN chain.results[3]
    /\ chain.invoked = <<0, 2>>
    /\ Len(execution_history) = 2
    /\ chain.workflow_context # <<>>

----------------------------------------------------------------------------
(* The status of an Agent Runtime.                                         *)

RuntimeTransitions ==
    {<<"none", "initialized">>, <<"initialized", "active">>,
     <<"active", "completed">>, <<"active", "failed">>, <<"active", "cancelled">>}

\* C32: the status of an agent instance changes only along
\* initialized -> active -> completed | failed | cancelled; in particular an
\* instance that is completed or failed never becomes active again, whatever
\* calls of execute follow.
C32_RuntimeStatusMachine ==
    [][ /\ runtime'.status # runtime.status
           => <<runtime.status, runtime'.status>> \in RuntimeTransitions
        /\ runtime.status \in {"completed", "failed"} => runtime'.status # "active"
      ]_vars

----------------------------------------------------------------------------
(* The cleanup of completed workflows.                                     *)

\* The workflows that are completed with a completion time before the
\* cutoff of a cleanup over older_than_hours hours.
CompletedBefore(older_than_hours) ==
    {t \in DOMAIN task_workflows :
        /\ task_workflows[t].status = "completed"
        /\ task_workflows[t].completed_at # NoTime
        /\ task_workflows[t].completed_at < now - 60 * older_than_hours}

\* g is f without the keys in removed.
Without(g, f, removed) ==
    /\ DOMAIN g = DOMAIN f \ removed
    /\ \A t \in DOMAIN g : g[t] = f[t]

\* C33: a cleanup removes the workflows completed before the cutoff and
\* their timeout and dependency entries, and nothing else: every other
\* workflow, timeout and dependency entry is as before, the reply counts the
\* removed workflows, and the Task Store and the Memory Service are not
\* written.
C33_CleanupRemovesOldCompleted ==
    [][ \A h \in {0, 1} :
          cleanup_completed_workflows(h) =>
             /\ Without(task_workflows', task_workflows, CompletedBefore(h))
             /\ Without(task_timeouts', task_timeouts, CompletedBefore(h))
             /\ Without(task_dependencies', task_dependencies, CompletedBefore(h))
             /\ reply'.cleaned_workflows = Cardinality(CompletedBefore(h))
             /\ tasks' = tasks /\ agents' = agents /\ memory' = memory
      ]_vars

\* A cleanup has removed one workflow and left another one, completed
\* exactly at the cutoff, with its timeout and dependency entries.
C33_Witness ==
    /\ reply = [op |-> "cleanup_completed_workflows", cleaned_workflows |-> 1]
    /\ Len(tasks) = 1
    /\ Len(memory) = 2
    /\ DOMAIN task_workflows = {2}
    /\ task_workflows[2].status = "completed"
    /\ task_workflows[2].completed_at = now - 60
    /\ DOMAIN task_dependencies = {2}
    /\ DOMAIN task_timeouts = {2}

----------------------------------------------------------------------------
(* Missing parameters.                                                     *)

\* Spec i of the batch names a registered tool and leaves out a parameter
\* the tool requires.
MissingRequired(i) ==
    /\ get_tool(par.tool_specs[i].tool)
    /\ ~par.tool_specs[i].parameters_ok

\* C34: an execute_single_tool call for a registered tool with a required
\* parameter missing returns without awaiting the capability; what it
\* returns has success false and the error of the validation, naming the
\* missing parameter; its execution id is not in the active set afterwards
\* and a record with that id and a status other than completed is in the
\* history.
C34_MissingParameterRejected ==
    [][ \A i \in 1..MaxPar :
          (Returns(i) /\ MissingRequired(i)) =>
             /\ i \notin DOMAIN calls
             /\ ~par'.tasks[i].result.success
             /\ par'.tasks[i].result.error = "Missing required parameter"
             /\ ExecutionIdOf(i) \notin DOMAIN active_executions'
             /\ \E h \in DOMAIN execution_history' :
                   /\ execution_history'[h].execution_id = ExecutionIdOf(i)
                   /\ execution_history'[h].status \in {"failed", "error"}
      ]_vars

----------------------------------------------------------------------------
(* The agents created for a task.                                          *)

\* _create_agents_for_task of task t has returned.
AgentsCreated(t) == t \in DOMAIN pc /\ pc[t] \in {"agents", "gather", "synthesis"}

\* C35: once the agents of a task are created, the plan's agent list has one
\* agent per suggested entry of the analysis, of the entry's type and in the
\* order of the entries, each with a row of its own in the store; and when
\* the agents have been executed the plan's result list has as many entries
\* as the analysis has suggested agents.
C35_OneAgentPerSuggestion ==
    \A t \in DOMAIN active_tasks :
        AgentsCreated(t) =>
            LET plan == active_tasks[t]
            IN  /\ Len(plan.agents) = Len(plan.analysis)
                /\ \A k \in DOMAIN plan.agents :
                      /\ k \in DOMAIN plan.analysis
                      /\ plan.agents[k].type = plan.analysis[k].type
                      /\ plan.agents[k].id \in DOMAIN agents
                      /\ \A j \in DOMAIN plan.agents :
                            j # k => plan.agents[j].id # plan.agents[k].id
                /\ pc[t] = "synthesis" => Len(plan.results) = Len(plan.analysis)

----------------------------------------------------------------------------
(* The plan and the store at the eviction.                                 *)

\* The plan of task t is evicted in this step.
Evicted(t) ==
    /\ t \in DOMAIN active_tasks
    /\ t \notin DOMAIN active_tasks'

\* C36: when the plan of a task is evicted, the status the Task Store holds
\* for the task is the status the plan held, so that get_task_status
\* reports after the eviction what it reported before it.
C36_EvictedStatusStored ==
    [][\A t \in TaskIds :
          Evicted(t) =>
             /\ task_exists(t)
             /\ tasks'[t].status = active_tasks[t].status
             /\ task_status_view(t)' = task_status_view(t)]_vars

----------------------------------------------------------------------------
(* The stored rows of the executions.                                      *)

\* C37: a call of execute_single_tool that awaits its capability has a
\* stored row of its own with status pending, created before the capability
\* was invoked; and a stored row with status pending belongs to a call that
\* has not returned: when a call returns, on success or on failure, its row
\* has left the status pending.
C37_StoredRecordBracketsCall ==
    /\ \A i \in DOMAIN calls :
          /\ calls[i].db_execution \in DOMAIN agent_executions
          /\ agent_executions[calls[i].db_execution].status = "pending"
    /\ \A k \in DOMAIN agent_executions :
          agent_executions[k].status = "pending"
             => \E i \in DOMAIN calls : calls[i].db_execution = k

\* C38: under concurrent execute_single_tool calls, also calls of one agent
\* for one tool that build the same execution id, active_executions holds
\* one entry per call in flight, and a call that returns appends one record
\* to execution_history and returns the outcome of its own tool.
C38_ConcurrentCallsKeepOwnRecords ==
    /\ [](Cardinality(DOMAIN active_executions) = Cardinality(DOMAIN calls))
    /\ [][\A i \in 1..MaxPar :
            Returns(i) =>
               /\ Len(execution_history') = Len(execution_history) + 1
               /\ par'.tasks[i].result = OwnOutcome(i)']_vars

----------------------------------------------------------------------------
(* Replaced workflows.                                                     *)

\* The dependencies that check_task_dependencies and
\* optimize_task_scheduling read for a task.
ConsultedDependencies(t) ==
    IF t \in DOMAIN task_dependencies THEN task_dependencies[t] ELSE <<>>

\* C39: after create_task_workflow(task_id, definition) the dependencies
\* consulted for the task are the ones the definition declares, also when
\* the call replaces an earlier workflow of the task: a definition without
\* dependencies leaves the task with none.
C39_DependenciesFollowDefinition ==
    [][\A deps \in DepLists :
          create_task_workflow(1, 1, deps) =>
             /\ ConsultedDependencies(1)' = deps
             /\ deps = <<>> => check_task_dependencies(1)'.satisfied]_vars

----------------------------------------------------------------------------
(* Suggested priorities.                                                   *)

\* C40: the priority that orders the agents of a task is the one of the
\* agent's suggested-agent entry in the analysis: once the agents of a plan
\* are created, one per entry and in the order of the entries, the agent of
\* an entry suggested with priority high is among the agents of the
\* sequential high-priority phase and the agent of any other entry among
\* the agents of the later phase, default and dynamic agents alike.
C40_SuggestedPriorityOrdersAgents ==
    \A t \in DOMAIN active_tasks :
       LET plan == active_tasks[t]
       IN  Len(plan.agents) = Len(plan.analysis) =>
              \A i \in DOMAIN plan.agents :
                 IsHigh(plan.agents[i]) <=> plan.analysis[i].priority = "high"
====
